---------------------------- MODULE Spec2Model ----------------------------
(***************************************************************************)
(* Route discovery and route matching of d-nerve-backend.                  *)
(*                                                                         *)
(*   app/services/route_discovery.py  RouteDiscoveryService                *)
(*   app/services/route_matching.py   RouteMatchingService                 *)
(*                                                                         *)
(* Units.  Coordinates are integers in units of 1e-4 degree (the hub table *)
(* of the source has four decimals).  Distances returned by                *)
(* haversine_distance are whole metres.  A trajectory's distance_km is     *)
(* kept in metres (thousandths of a kilometre).  Timestamps are strings in *)
(* the source and are compared as strings; a string is modelled by its     *)
(* rank in string order, rank 0 being the empty string.                    *)
(***************************************************************************)
EXTENDS Integers, Sequences, FiniteSets, TLC

VARIABLES
    \* ---- extract_trajectory_features exercised on its own
    gps_points,       \* the decoded GPS payload handed to the extractor
    presorted,        \* the same fixes in an order already sorted by timestamp
    permSteps,        \* how many reorderings were applied to gps_points
    features,         \* extractor result for gps_points, or NotRun
    features_sorted,  \* extractor result for presorted, or NotRun
    \* ---- the route store (table routes), in row order
    routes,
    \* ---- match_route: the last query and its answer
    origin_text,
    dest_text,
    match_result,
    \* ---- discover_routes
    trips,            \* the trip store (table trips), in row order
    clock,            \* the last reading of datetime.utcnow(), in seconds
    runs_started,     \* calls of discover_routes so far
    run,              \* the locals of the call in progress, and where it is
    session,          \* its database session: rows added, rows modified
    report,           \* the dict the call returns
    \* ---- find_nearest_hub exercised on its own
    hub_query,        \* the point and the max_distance_m asked about
    hub_result,       \* the hub name returned, or NotSnapped
    \* ---- the scheduler's jobs
    jobs,             \* per job: the discovery call it is running, and its session
    \* ---- one driver's account (tables drivers, trips, points_transactions,
    \* ---- driver_badges)
    driver,               \* the driver's row, or NoDriver before registration
    driver_trips,         \* quality_score of each of the driver's trips, in hundredths
    points_transactions,  \* the driver's PointsTransaction rows, oldest first
    driver_badges,        \* badge_id of each of the driver's DriverBadge rows
    driver_response       \* what the last request on the account answered

extractVars == <<gps_points, presorted, permSteps, features, features_sorted>>
matchVars == <<origin_text, dest_text, match_result>>

discoveryVars == <<trips, clock, runs_started, run, session, report>>

snapVars == <<hub_query, hub_result>>

gamificationVars ==
    <<driver, driver_trips, points_transactions, driver_badges, driver_response>>

vars == <<extractVars, routes, matchVars, discoveryVars, snapVars, jobs, gamificationVars>>

-----------------------------------------------------------------------------
(* Bounds of the model                                                     *)

MaxFixes     == 11   \* longest GPS list handed to the extractor on its own
MaxPermSteps == 2    \* reorderings applied to one list
MaxRoutes    == 2    \* rows of the route store the matcher is queried on
MaxClusterTrips == 3 \* trips of one kind in the trip store
MaxRuns      == 2    \* calls of discover_routes in one behaviour
MaxClock     == 1    \* seconds that pass in one behaviour
MaxSnapSteps == 2    \* grid steps, each way, of the points find_nearest_hub is asked about

-----------------------------------------------------------------------------
(* Program constants                                                       *)

EPSILON_METERS == 200
MIN_SAMPLES    == 3
MIN_GPS_POINTS == 10

-----------------------------------------------------------------------------
(* Small helpers                                                           *)

Abs(x) == IF x < 0 THEN -x ELSE x

RECURSIVE ISqrtIn(_, _, _)
\* floor of the square root of x, searched in lo..hi (lo*lo <= x < (hi+1)^2)
ISqrtIn(x, lo, hi) ==
    IF lo >= hi THEN lo
    ELSE LET mid == (lo + hi + 1) \div 2
         IN  IF mid * mid <= x THEN ISqrtIn(x, mid, hi) ELSE ISqrtIn(x, lo, mid - 1)

-----------------------------------------------------------------------------
(* GeoMath                                                                 *)

\* haversine_distance: metres between two coordinates.  The great-circle
\* formula is evaluated on the local tangent plane at Cairo's latitude
\* (1e-4 degree of latitude = 11.1 m, of longitude = 9.6 m), truncated to
\* whole metres.  Points more than 30 km apart on one axis all read
\* 60 km: no caller of the model distinguishes distances that large.
haversine_distance(lat1, lon1, lat2, lon2) ==
    LET dy == (111 * Abs(lat2 - lat1)) \div 10
        dx == (96 * Abs(lon2 - lon1)) \div 10
    IN  IF dy > 30000 \/ dx > 30000 THEN 60000
        ELSE ISqrtIn(dy * dy + dx * dx, IF dy > dx THEN dy ELSE dx, dy + dx)

-----------------------------------------------------------------------------
(* Decoded JSON values, as json.loads returns them                         *)

\* a field of a JSON object: absent, a number, a string or null
Absent  == [k |-> "absent", v |-> 0]
Null    == [k |-> "null", v |-> 0]
Num(x)  == [k |-> "num", v |-> x]
Str(x)  == [k |-> "str", v |-> x]

\* one element of a decoded list: a dict with the three fix fields, or not a dict
Dict(lat, lon, ts) == [isdict |-> TRUE, latitude |-> lat, longitude |-> lon, timestamp |-> ts]
NotADict == [isdict |-> FALSE, latitude |-> Absent, longitude |-> Absent, timestamp |-> Absent]
GPSPoint(lat, lon, ts) == Dict(Num(lat), Num(lon), Str(ts))

\* a decoded value: t is its Python type, n its number value or its len(),
\* items its elements when it is a list
JNone      == [t |-> "NoneType", n |-> 0, items |-> <<>>]
JNumber(x) == [t |-> "int", n |-> x, items |-> <<>>]
JString(n) == [t |-> "str", n |-> n, items |-> <<>>]
JObject(n) == [t |-> "dict", n |-> n, items |-> <<>>]
JList(s)   == [t |-> "list", n |-> Len(s), items |-> s]

-----------------------------------------------------------------------------
(* TrajectoryExtractor: extract_trajectory_features                        *)

NoSummary(status) ==
    [status |-> status, start |-> <<0, 0>>, end |-> <<0, 0>>,
     distance_km |-> 0, point_count |-> 0]

NotRun == NoSummary("not run")

\* p.get('timestamp', ''): a missing timestamp reads as the empty string
TimestampKey(p) == IF p.timestamp.k = "absent" THEN Str(0) ELSE p.timestamp

\* sorted() compares keys with <: it needs all keys strings, or all numbers
KeysComparable(items) ==
    \/ Len(items) < 2
    \/ \A i \in 1..Len(items) : TimestampKey(items[i]).k = "str"
    \/ \A i \in 1..Len(items) : TimestampKey(items[i]).k = "num"

RECURSIVE InsertSorted(_, _)
\* p inserted into the sorted list s after every element whose key is <= p's
InsertSorted(s, p) ==
    IF s = <<>> THEN <<p>>
    ELSE IF TimestampKey(s[Len(s)]).v <= TimestampKey(p).v THEN Append(s, p)
    ELSE Append(InsertSorted(SubSeq(s, 1, Len(s) - 1), p), s[Len(s)])

RECURSIVE SortUpTo(_, _)
SortUpTo(items, n) ==
    IF n = 0 THEN <<>> ELSE InsertSorted(SortUpTo(items, n - 1), items[n])

\* (mutation: the fixes are taken in the order given)
SortByTimestamp_unsorted(items) == items

\* sorted(gps_points, key=lambda p: p.get('timestamp', '')): stable, ascending
SortByTimestamp(items) == SortUpTo(items, Len(items))

\* the exception the distance loop raises at the pair (p1, p2), or "ok"
PairError(p1, p2) ==
    IF \E f \in {p1.latitude, p1.longitude, p2.latitude, p2.longitude} : f.k = "absent"
    THEN "KeyError"
    ELSE IF \E f \in {p1.latitude, p1.longitude, p2.latitude, p2.longitude} : f.k # "num"
    THEN "TypeError"
    ELSE "ok"

RECURSIVE PathFrom(_, _, _)
\* the loop over consecutive sorted fixes from index i on: the first exception
\* met, or the accumulated length in metres
PathFrom(s, i, total) ==
    IF i > Len(s) THEN [err |-> "ok", total |-> total]
    ELSE LET e == PairError(s[i - 1], s[i])
         IN  IF e # "ok" THEN [err |-> e, total |-> total]
             ELSE PathFrom(s, i + 1,
                           total + haversine_distance(s[i - 1].latitude.v, s[i - 1].longitude.v,
                                                      s[i].latitude.v, s[i].longitude.v))

\* (mutation: the threshold test taken one too far)
TooFewPoints_inclusive(n) == n <= MIN_GPS_POINTS

\* len(gps_points) < cls.MIN_GPS_POINTS
TooFewPoints(n) == n < MIN_GPS_POINTS

extract_trajectory_features(gps) ==
    IF gps.t = "NoneType" THEN NoSummary("None")
    ELSE IF gps.t = "int"
    THEN (IF gps.n = 0 THEN NoSummary("None") ELSE NoSummary("TypeError"))
    ELSE IF TooFewPoints(gps.n) THEN NoSummary("None")
    ELSE IF gps.t # "list" \/ \E i \in 1..Len(gps.items) : ~gps.items[i].isdict
    THEN NoSummary("AttributeError")
    ELSE IF ~KeysComparable(gps.items) THEN NoSummary("TypeError")
    ELSE LET sorted_points == SortByTimestamp(gps.items)
             path == PathFrom(sorted_points, 2, 0)
             start_point == sorted_points[1]
             end_point == sorted_points[Len(sorted_points)]
         IN  IF path.err # "ok" THEN NoSummary(path.err)
             ELSE [status |-> "ok",
                   start |-> <<start_point.latitude.v, start_point.longitude.v>>,
                   end |-> <<end_point.latitude.v, end_point.longitude.v>>,
                   distance_km |-> path.total,
                   point_count |-> Len(sorted_points)]

-----------------------------------------------------------------------------
(* HubRegistry                                                             *)

\* CAIRO_HUBS, in declaration order; coordinates in 1e-4 degree
CAIRO_HUBS == <<
    [name |-> "Ramses Square", lat |-> 300619, lon |-> 312466],
    [name |-> "Tahrir Square", lat |-> 300444, lon |-> 312357],
    [name |-> "Giza Square", lat |-> 300131, lon |-> 312089],
    [name |-> "Ataba Square", lat |-> 300531, lon |-> 312469],
    [name |-> "Maadi", lat |-> 299602, lon |-> 312569],
    [name |-> "Heliopolis", lat |-> 300866, lon |-> 313225],
    [name |-> "Nasr City", lat |-> 300511, lon |-> 313656],
    [name |-> "Shubra", lat |-> 300986, lon |-> 312422],
    [name |-> "Mohandessin", lat |-> 300609, lon |-> 312003],
    [name |-> "Dokki", lat |-> 300392, lon |-> 312125],
    [name |-> "Ain Shams", lat |-> 301311, lon |-> 313194],
    [name |-> "Zeitoun", lat |-> 301167, lon |-> 313000],
    [name |-> "Abbassia", lat |-> 300722, lon |-> 312833],
    [name |-> "Imbaba", lat |-> 300758, lon |-> 312078],
    [name |-> "Dar El Salam", lat |-> 299833, lon |-> 312417],
    [name |-> "6th October City", lat |-> 299389, lon |-> 309167],
    [name |-> "New Cairo", lat |-> 300300, lon |-> 314700],
    [name |-> "Helwan", lat |-> 298500, lon |-> 313340],
    [name |-> "Zamalek", lat |-> 300609, lon |-> 312194],
    [name |-> "Downtown", lat |-> 300459, lon |-> 312394]
>>

HubNames == { CAIRO_HUBS[i].name : i \in 1..Len(CAIRO_HUBS) }

\* (mutation: every name gets the coordinates of the first hub)
HubCoords_first(name) == <<CAIRO_HUBS[1].lat, CAIRO_HUBS[1].lon>>

\* cls.CAIRO_HUBS[name]
HubCoords(name) ==
    LET h == CHOOSE i \in 1..Len(CAIRO_HUBS) : CAIRO_HUBS[i].name = name
    IN  <<CAIRO_HUBS[h].lat, CAIRO_HUBS[h].lon>>

-----------------------------------------------------------------------------
(* The route store                                                         *)

\* A duration in minutes as the float the store holds: not-a-number, or the
\* exact fraction num/den (den a power of two: halving is exact in floating
\* point).
NaN == [nan |-> TRUE, num |-> 0, den |-> 1]
Minutes(n) == [nan |-> FALSE, num |-> n, den |-> 1]

RECURSIVE Reduced(_)
\* the fraction in lowest terms
Reduced(x) ==
    IF x.den > 1 /\ x.num % 2 = 0 THEN Reduced([x EXCEPT !.num = @ \div 2, !.den = @ \div 2])
    ELSE x

\* (a + b) / 2
HalfSum(a, b) ==
    IF a.nan \/ b.nan THEN NaN
    ELSE Reduced([nan |-> FALSE, num |-> a.num * b.den + b.num * a.den, den |-> 2 * a.den * b.den])

\* class Route.  distance_km and fare_egp are kept in tenths.
\* route_id: "route_015" is prefix "route", n 15; a discovered route's id is
\* "route_discovered_<second>_<n>"
RouteRow(id, origin, destination, duration, distance, fare, count, active) ==
    [route_id |-> [prefix |-> "route", stamp |-> 0, n |-> id],
     name |-> <<origin, destination>>,      \* f"{origin} - {destination}"
     origin |-> origin, destination |-> destination,
     origin_lat |-> HubCoords(origin)[1], origin_lon |-> HubCoords(origin)[2],
     dest_lat |-> HubCoords(destination)[1], dest_lon |-> HubCoords(destination)[2],
     distance_km |-> distance, avg_duration_minutes |-> duration,
     fare_egp |-> fare, trip_count |-> count, is_active |-> active]

\* rows of init_sample_routes (ML_ROUTES 15, 4 and 6), each with trip_count 10
SampleRoutes == <<
    RouteRow(15, "Ramses Square", "Tahrir Square", Minutes(3), 25, 40, 10, TRUE),
    RouteRow(4, "Ramses Square", "Giza Square", Minutes(8), 55, 60, 10, TRUE),
    RouteRow(6, "Tahrir Square", "Giza Square", Minutes(8), 60, 60, 10, TRUE)
>>

-----------------------------------------------------------------------------
(* TextNormalizer / AliasResolver                                          *)

\* the characters (code points) of every string the model handles as text
CodePoints ==
       ("Ramses Square" :> <<82, 97, 109, 115, 101, 115, 32, 83, 113, 117, 97, 114, 101>>)
    @@ ("Tahrir Square" :> <<84, 97, 104, 114, 105, 114, 32, 83, 113, 117, 97, 114, 101>>)
    @@ ("Giza Square" :> <<71, 105, 122, 97, 32, 83, 113, 117, 97, 114, 101>>)
    @@ ("Ataba Square" :> <<65, 116, 97, 98, 97, 32, 83, 113, 117, 97, 114, 101>>)
    @@ ("Maadi" :> <<77, 97, 97, 100, 105>>)
    @@ ("Heliopolis" :> <<72, 101, 108, 105, 111, 112, 111, 108, 105, 115>>)
    @@ ("Nasr City" :> <<78, 97, 115, 114, 32, 67, 105, 116, 121>>)
    @@ ("Shubra" :> <<83, 104, 117, 98, 114, 97>>)
    @@ ("Mohandessin" :> <<77, 111, 104, 97, 110, 100, 101, 115, 115, 105, 110>>)
    @@ ("Dokki" :> <<68, 111, 107, 107, 105>>)
    @@ ("Ain Shams" :> <<65, 105, 110, 32, 83, 104, 97, 109, 115>>)
    @@ ("Zeitoun" :> <<90, 101, 105, 116, 111, 117, 110>>)
    @@ ("Abbassia" :> <<65, 98, 98, 97, 115, 115, 105, 97>>)
    @@ ("Imbaba" :> <<73, 109, 98, 97, 98, 97>>)
    @@ ("Dar El Salam" :> <<68, 97, 114, 32, 69, 108, 32, 83, 97, 108, 97, 109>>)
    @@ ("6th October City" :> <<54, 116, 104, 32, 79, 99, 116, 111, 98, 101, 114, 32, 67, 105, 116, 121>>)
    @@ ("New Cairo" :> <<78, 101, 119, 32, 67, 97, 105, 114, 111>>)
    @@ ("Helwan" :> <<72, 101, 108, 119, 97, 110>>)
    @@ ("Zamalek" :> <<90, 97, 109, 97, 108, 101, 107>>)
    @@ ("Downtown" :> <<68, 111, 119, 110, 116, 111, 119, 110>>)
    @@ ("ramses" :> <<114, 97, 109, 115, 101, 115>>)
    @@ ("tahrir" :> <<116, 97, 104, 114, 105, 114>>)
    @@ ("giza" :> <<103, 105, 122, 97>>)
    @@ ("maadi" :> <<109, 97, 97, 100, 105>>)
    @@ ("heliopolis" :> <<104, 101, 108, 105, 111, 112, 111, 108, 105, 115>>)
    @@ ("nasr city" :> <<110, 97, 115, 114, 32, 99, 105, 116, 121>>)
    @@ ("mohandessin" :> <<109, 111, 104, 97, 110, 100, 101, 115, 115, 105, 110>>)
    @@ ("dokki" :> <<100, 111, 107, 107, 105>>)
    @@ ("shubra" :> <<115, 104, 117, 98, 114, 97>>)
    @@ ("zamalek" :> <<122, 97, 109, 97, 108, 101, 107>>)
    @@ ("downtown" :> <<100, 111, 119, 110, 116, 111, 119, 110>>)
    @@ ("6th october" :> <<54, 116, 104, 32, 111, 99, 116, 111, 98, 101, 114>>)
    @@ ("new cairo" :> <<110, 101, 119, 32, 99, 97, 105, 114, 111>>)
    @@ ("helwan" :> <<104, 101, 108, 119, 97, 110>>)
    @@ ("ain shams" :> <<97, 105, 110, 32, 115, 104, 97, 109, 115>>)
    @@ ("abbassia" :> <<97, 98, 98, 97, 115, 115, 105, 97>>)
    @@ ("imbaba" :> <<105, 109, 98, 97, 98, 97>>)
    @@ ("dar el salam" :> <<100, 97, 114, 32, 101, 108, 32, 115, 97, 108, 97, 109>>)
    @@ ("zeitoun" :> <<122, 101, 105, 116, 111, 117, 110>>)
    @@ ("ataba" :> <<97, 116, 97, 98, 97>>)
    @@ ("Ramsis" :> <<82, 97, 109, 115, 105, 115>>)
    @@ ("tahrir sq" :> <<116, 97, 104, 114, 105, 114, 32, 115, 113>>)
    @@ ("  GIZA " :> <<32, 32, 71, 73, 90, 65, 32>>)
    @@ ("" :> <<>>)
    @@ ("cairo tower" :> <<99, 97, 105, 114, 111, 32, 116, 111, 119, 101, 114>>)

\* AREA_ALIASES, in declaration order; every alias is its sequence of code points
AREA_ALIASES == <<
    [canonical |-> "ramses",
     aliases |-> <<
        <<114, 97, 109, 115, 101, 115>>,   \* ramses
        <<1585, 1605, 1587, 1610, 1587>>,   \* (Arabic script)
        <<114, 97, 109, 115, 105, 115>>,   \* ramsis
        <<109, 97, 104, 97, 116, 101, 116, 32, 109, 97, 115, 114>>,   \* mahatet masr
        <<116, 114, 97, 105, 110, 32, 115, 116, 97, 116, 105, 111, 110>>   \* train station
     >>],
    [canonical |-> "tahrir",
     aliases |-> <<
        <<116, 97, 104, 114, 105, 114>>,   \* tahrir
        <<1575, 1604, 1578, 1581, 1585, 1610, 1585>>,   \* (Arabic script)
        <<116, 97, 104, 114, 101, 114>>,   \* tahrer
        <<109, 105, 100, 97, 110, 32, 116, 97, 104, 114, 105, 114>>   \* midan tahrir
     >>],
    [canonical |-> "giza",
     aliases |-> <<
        <<103, 105, 122, 97>>,   \* giza
        <<1575, 1604, 1580, 1610, 1586, 1577>>,   \* (Arabic script)
        <<103, 105, 122, 97, 104>>,   \* gizah
        <<112, 121, 114, 97, 109, 105, 100, 115, 32, 97, 114, 101, 97>>   \* pyramids area
     >>],
    [canonical |-> "maadi",
     aliases |-> <<
        <<109, 97, 97, 100, 105>>,   \* maadi
        <<1575, 1604, 1605, 1593, 1575, 1583, 1610>>,   \* (Arabic script)
        <<109, 97, 97, 100, 121>>,   \* maady
        <<109, 97, 97, 100, 105, 32, 100, 101, 103, 108, 97>>   \* maadi degla
     >>],
    [canonical |-> "heliopolis",
     aliases |-> <<
        <<104, 101, 108, 105, 111, 112, 111, 108, 105, 115>>,   \* heliopolis
        <<1605, 1589, 1585, 32, 1575, 1604, 1580, 1583, 1610, 1583, 1577>>,   \* (Arabic script)
        <<109, 97, 115, 114, 32, 101, 108, 32, 103, 101, 100, 105, 100,
          97>>,   \* masr el gedida
        <<109, 105, 115, 114, 32, 101, 108, 32, 103, 101, 100, 105, 100,
          97>>   \* misr el gedida
     >>],
    [canonical |-> "nasr city",
     aliases |-> <<
        <<110, 97, 115, 114, 32, 99, 105, 116, 121>>,   \* nasr city
        <<1605, 1583, 1610, 1606, 1577, 32, 1606, 1589, 1585>>,   \* (Arabic script)
        <<110, 97, 115, 114>>,   \* nasr
        <<109, 97, 100, 105, 110, 101, 116, 32, 110, 97, 115, 114>>   \* madinet nasr
     >>],
    [canonical |-> "mohandessin",
     aliases |-> <<
        <<109, 111, 104, 97, 110, 100, 101, 115, 115, 105, 110>>,   \* mohandessin
        <<1575, 1604, 1605, 1607, 1606, 1583, 1587, 1610, 1606>>,   \* (Arabic script)
        <<109, 111, 104, 97, 110, 100, 105, 115, 101, 101, 110>>,   \* mohandiseen
        <<109, 111, 104, 97, 110, 100, 115, 101, 101, 110>>   \* mohandseen
     >>],
    [canonical |-> "dokki",
     aliases |-> <<
        <<100, 111, 107, 107, 105>>,   \* dokki
        <<1575, 1604, 1583, 1602, 1610>>,   \* (Arabic script)
        <<100, 111, 107, 105>>,   \* doki
        <<100, 111, 113, 113, 105>>   \* doqqi
     >>],
    [canonical |-> "shubra",
     aliases |-> <<
        <<115, 104, 117, 98, 114, 97>>,   \* shubra
        <<1588, 1576, 1585, 1575>>,   \* (Arabic script)
        <<115, 104, 111, 117, 98, 114, 97>>,   \* shoubra
        <<115, 104, 111, 98, 114, 97>>   \* shobra
     >>],
    [canonical |-> "zamalek",
     aliases |-> <<
        <<122, 97, 109, 97, 108, 101, 107>>,   \* zamalek
        <<1575, 1604, 1586, 1605, 1575, 1604, 1603>>,   \* (Arabic script)
        <<122, 97, 109, 97, 108, 97, 107>>   \* zamalak
     >>],
    [canonical |-> "downtown",
     aliases |-> <<
        <<100, 111, 119, 110, 116, 111, 119, 110>>,   \* downtown
        <<1608, 1587, 1591, 32, 1575, 1604, 1576, 1604, 1583>>,   \* (Arabic script)
        <<119, 117, 115, 116, 32, 101, 108, 32, 98, 97, 108, 97, 100>>,   \* wust el balad
        <<97, 116, 97, 98, 97>>,   \* ataba
        <<111, 112, 101, 114, 97>>   \* opera
     >>],
    [canonical |-> "6th october",
     aliases |-> <<
        <<54, 116, 104, 32, 111, 99, 116, 111, 98, 101, 114>>,   \* 6th october
        <<54, 32, 111, 99, 116, 111, 98, 101, 114>>,   \* 6 october
        <<1575, 1604, 1587, 1575, 1583, 1587, 32, 1605, 1606, 32, 1571,
          1603, 1578, 1608, 1576, 1585>>,   \* (Arabic script)
        <<111, 99, 116, 111, 98, 101, 114>>,   \* october
        <<54, 32, 1575, 1603, 1578, 1608, 1576, 1585>>   \* (Arabic script)
     >>],
    [canonical |-> "new cairo",
     aliases |-> <<
        <<110, 101, 119, 32, 99, 97, 105, 114, 111>>,   \* new cairo
        <<1575, 1604, 1602, 1575, 1607, 1585, 1577, 32, 1575, 1604, 1580,
          1583, 1610, 1583, 1577>>,   \* (Arabic script)
        <<116, 97, 103, 97, 109, 111, 97>>,   \* tagamoa
        <<1575, 1604, 1578, 1580, 1605, 1593>>,   \* (Arabic script)
        <<114, 101, 104, 97, 98>>,   \* rehab
        <<102, 105, 102, 116, 104, 32, 115, 101, 116, 116, 108, 101, 109,
          101, 110, 116>>   \* fifth settlement
     >>],
    [canonical |-> "helwan",
     aliases |-> <<
        <<104, 101, 108, 119, 97, 110>>,   \* helwan
        <<1581, 1604, 1608, 1575, 1606>>,   \* (Arabic script)
        <<104, 101, 108, 111, 97, 110>>   \* heloan
     >>],
    [canonical |-> "ain shams",
     aliases |-> <<
        <<97, 105, 110, 32, 115, 104, 97, 109, 115>>,   \* ain shams
        <<1593, 1610, 1606, 32, 1588, 1605, 1587>>,   \* (Arabic script)
        <<101, 105, 110, 32, 115, 104, 97, 109, 115>>   \* ein shams
     >>],
    [canonical |-> "abbassia",
     aliases |-> <<
        <<97, 98, 98, 97, 115, 115, 105, 97>>,   \* abbassia
        <<1575, 1604, 1593, 1576, 1575, 1587, 1610, 1577>>,   \* (Arabic script)
        <<97, 98, 98, 97, 115, 105, 97>>,   \* abbasia
        <<97, 98, 97, 115, 115, 101, 121, 97>>   \* abasseya
     >>],
    [canonical |-> "imbaba",
     aliases |-> <<
        <<105, 109, 98, 97, 98, 97>>,   \* imbaba
        <<1573, 1605, 1576, 1575, 1576, 1577>>,   \* (Arabic script)
        <<101, 109, 98, 97, 98, 97>>   \* embaba
     >>],
    [canonical |-> "dar el salam",
     aliases |-> <<
        <<100, 97, 114, 32, 101, 108, 32, 115, 97, 108, 97, 109>>,   \* dar el salam
        <<1583, 1575, 1585, 32, 1575, 1604, 1587, 1604, 1575, 1605>>,   \* (Arabic script)
        <<100, 97, 114, 32, 97, 108, 115, 97, 108, 97, 109>>   \* dar alsalam
     >>],
    [canonical |-> "zeitoun",
     aliases |-> <<
        <<122, 101, 105, 116, 111, 117, 110>>,   \* zeitoun
        <<1575, 1604, 1586, 1610, 1578, 1608, 1606>>,   \* (Arabic script)
        <<122, 97, 121, 116, 111, 117, 110>>,   \* zaytoun
        <<122, 97, 105, 116, 111, 117, 110>>   \* zaitoun
     >>],
    [canonical |-> "ataba",
     aliases |-> <<
        <<97, 116, 97, 98, 97>>,   \* ataba
        <<1575, 1604, 1593, 1578, 1576, 1577>>,   \* (Arabic script)
        <<97, 116, 116, 97, 98, 97>>   \* attaba
     >>]
>>

NoneName == "None"

IsSpace(c) == c \in {9, 10, 11, 12, 13, 32}

Lower(c) == IF c \in 65..90 THEN c + 32 ELSE c

RECURSIVE LStrip(_)
LStrip(s) == IF s # <<>> /\ IsSpace(Head(s)) THEN LStrip(Tail(s)) ELSE s

RECURSIVE RStrip(_)
RStrip(s) ==
    IF s # <<>> /\ IsSpace(s[Len(s)]) THEN RStrip(SubSeq(s, 1, Len(s) - 1)) ELSE s

RECURSIVE CollapseSpaces(_)
\* re.sub(r'\s+', ' ', text)
CollapseSpaces(s) ==
    IF s = <<>> THEN <<>>
    ELSE IF IsSpace(Head(s)) THEN <<32>> \o CollapseSpaces(LStrip(s))
    ELSE <<Head(s)>> \o CollapseSpaces(Tail(s))

normalize_text(text) ==
    IF text = <<>> THEN <<>>
    ELSE CollapseSpaces(RStrip(LStrip([i \in 1..Len(text) |-> Lower(text[i])])))

\* Python's "a in b" on strings
IsSubstring(a, b) ==
    \E i \in 0..(Len(b) - Len(a)) : SubSeq(b, i + 1, i + Len(a)) = a

\* (mutation: only an alias inside the text counts)
AliasMatches_one_way(alias, normalized) == IsSubstring(alias, normalized)

\* alias in normalized or normalized in alias
AliasMatches(alias, normalized) ==
    IsSubstring(alias, normalized) \/ IsSubstring(normalized, alias)

RECURSIVE CanonicalFrom(_, _)
\* the loop over AREA_ALIASES from entry i on: the first entry with a matching alias
CanonicalFrom(normalized, i) ==
    IF i > Len(AREA_ALIASES) THEN NoneName
    ELSE IF \E j \in 1..Len(AREA_ALIASES[i].aliases) :
                AliasMatches(AREA_ALIASES[i].aliases[j], normalized)
    THEN AREA_ALIASES[i].canonical
    ELSE CanonicalFrom(normalized, i + 1)

get_canonical_name(text) == CanonicalFrom(normalize_text(text), 1)

-----------------------------------------------------------------------------
(* RouteMatcher: match_route                                               *)

\* Scores are kept in tenths: 10 is 1.0, 8 is 0.8, 4 is 0.4.

\* origin_match / dest_match of one route end
EndMatches(normalized, canonical, route_end) ==
    \/ IsSubstring(normalized, route_end)
    \/ IsSubstring(route_end, normalized)
    \/ (canonical # NoneName /\ IsSubstring(CodePoints[canonical], route_end))

\* the body of the loop for one route: its score and the match_type it sets
\* ("keep" when it sets none)
ScoreRoute(route, origin_normalized, dest_normalized, origin_canonical, dest_canonical) ==
    LET route_origin == normalize_text(CodePoints[route.origin])
        route_dest == normalize_text(CodePoints[route.destination])
        route_origin_canonical == get_canonical_name(CodePoints[route.origin])
        route_dest_canonical == get_canonical_name(CodePoints[route.destination])
        exact == /\ origin_canonical # NoneName /\ dest_canonical # NoneName
                 /\ origin_canonical = route_origin_canonical
                 /\ dest_canonical = route_dest_canonical
        origin_match == EndMatches(origin_normalized, origin_canonical, route_origin)
        dest_match == EndMatches(dest_normalized, dest_canonical, route_dest)
    IN  IF exact THEN [score |-> 10, match_type |-> "exact"]
        ELSE IF origin_match /\ dest_match THEN [score |-> 8, match_type |-> "partial"]
        ELSE IF origin_match \/ dest_match THEN [score |-> 4, match_type |-> "partial"]
        ELSE [score |-> 0, match_type |-> "keep"]

\* (mutation: a later route with the same score replaces the best so far)
Beats_or_ties(score, best_score) == score >= best_score /\ score > 0

\* score > best_score
Beats(score, best_score) == score > best_score

RECURSIVE ScanRoutes(_, _, _, _, _, _, _)
\* the loop over the fetched routes from index i on, carrying the three locals
ScanRoutes(rs, i, on, dn, oc, dc, acc) ==
    IF i > Len(rs) THEN acc
    ELSE LET s == ScoreRoute(rs[i], on, dn, oc, dc)
             mt == IF s.match_type = "keep" THEN acc.match_type ELSE s.match_type
         IN  ScanRoutes(rs, i + 1, on, dn, oc, dc,
                        IF Beats(s.score, acc.best_score)
                        THEN [best_match |-> rs[i].route_id, best_score |-> s.score,
                              match_type |-> mt]
                        ELSE [acc EXCEPT !.match_type = mt])

\* (mutation: a one-end match no longer reaches the threshold)
GoodEnough_strict(best_score) == best_score > 4

\* best_score >= 0.4
GoodEnough(best_score) == best_score >= 4

IsActive(r) == r.is_active

NoRouteId == [prefix |-> "None", stamp |-> 0, n |-> 0]

NoMatch ==
    [matched |-> FALSE, route |-> NoRouteId, match_type |-> "none", confidence |-> 0]

match_route(otext, dtext, store) ==
    LET origin_normalized == normalize_text(CodePoints[otext])
        dest_normalized == normalize_text(CodePoints[dtext])
        origin_canonical == get_canonical_name(CodePoints[otext])
        dest_canonical == get_canonical_name(CodePoints[dtext])
        active == SelectSeq(store, IsActive)
        scan == ScanRoutes(active, 1, origin_normalized, dest_normalized,
                           origin_canonical, dest_canonical,
                           [best_match |-> NoRouteId, best_score |-> 0,
                            match_type |-> "none"])
    IN  IF scan.best_match # NoRouteId /\ GoodEnough(scan.best_score)
        THEN [matched |-> TRUE, route |-> scan.best_match,
              match_type |-> scan.match_type, confidence |-> scan.best_score]
        ELSE NoMatch

-----------------------------------------------------------------------------
(* HubRegistry: find_nearest_hub                                           *)

NoHub == "None"

\* (mutation: a hub as near as the nearest so far replaces it)
IsNearer_or_as_near(distance, min_distance, max_distance_m) ==
    (min_distance = -1 \/ distance <= min_distance) /\ distance <= max_distance_m

\* distance < min_distance and distance <= max_distance_m
IsNearer(distance, min_distance, max_distance_m) ==
    (min_distance = -1 \/ distance < min_distance) /\ distance <= max_distance_m

RECURSIVE NearestHubFrom(_, _, _, _, _, _)
\* the loop over CAIRO_HUBS from entry i on, carrying nearest_hub and
\* min_distance (-1 stands for float('inf'))
NearestHubFrom(lat, lon, max_distance_m, i, nearest_hub, min_distance) ==
    IF i > Len(CAIRO_HUBS) THEN nearest_hub
    ELSE LET distance == haversine_distance(lat, lon, CAIRO_HUBS[i].lat, CAIRO_HUBS[i].lon)
         IN  IF IsNearer(distance, min_distance, max_distance_m)
             THEN NearestHubFrom(lat, lon, max_distance_m, i + 1, CAIRO_HUBS[i].name, distance)
             ELSE NearestHubFrom(lat, lon, max_distance_m, i + 1, nearest_hub, min_distance)

\* (mutation: no hub is too far)
find_nearest_hub_unbounded(lat, lon, max_distance_m) ==
    NearestHubFrom(lat, lon, 60000, 1, NoHub, -1)

find_nearest_hub(lat, lon, max_distance_m) ==
    NearestHubFrom(lat, lon, max_distance_m, 1, NoHub, -1)

\* the default of the parameter max_distance_m
DefaultMaxDistance == 2000

-----------------------------------------------------------------------------
(* TrajectoryClusterer: cluster_trajectories                               *)

\* features_scaled: 1e-4 degree of latitude is 11.1 m (111000 m per degree),
\* of longitude 8.5 m (85000 m per degree); kept in decimetres
ScaledFeatures(t) ==
    <<111 * t.start[1], 85 * t.start[2], 111 * t.end[1], 85 * t.end[2]>>

\* eps = EPSILON_METERS * 2, in decimetres
Eps == EPSILON_METERS * 2 * 10

\* Euclidean distance of two feature rows <= eps
WithinEps(f, g) ==
    /\ \A k \in 1..4 : Abs(f[k] - g[k]) <= Eps
    /\ (f[1] - g[1]) * (f[1] - g[1]) + (f[2] - g[2]) * (f[2] - g[2])
         + (f[3] - g[3]) * (f[3] - g[3]) + (f[4] - g[4]) * (f[4] - g[4]) <= Eps * Eps

\* DBSCAN's neighbourhood of sample i (itself included)
Neighbours(fs, i) == { j \in 1..Len(fs) : WithinEps(fs[i], fs[j]) }

\* (mutation: one neighbour fewer makes a core sample)
IsCore_one_fewer(fs, i) == Cardinality(Neighbours(fs, i)) >= MIN_SAMPLES - 1

\* a core sample has at least min_samples neighbours
IsCore(fs, i) == Cardinality(Neighbours(fs, i)) >= MIN_SAMPLES

RECURSIVE Expand(_, _)
\* the samples the expansion from the set grown reaches: the neighbours of its
\* core samples, repeatedly
Expand(fs, grown) ==
    LET more == grown \cup UNION { Neighbours(fs, i) : i \in { j \in grown : IsCore(fs, j) } }
    IN  IF more = grown THEN grown ELSE Expand(fs, more)

RECURSIVE LabelFrom(_, _, _, _)
\* the outer loop of DBSCAN from sample i on: labels[j] is the cluster of
\* sample j, -1 while it has none; every unlabelled core sample starts the
\* next cluster, which takes the samples it reaches that have no label yet
LabelFrom(fs, i, labels, label_num) ==
    IF i > Len(fs) THEN labels
    ELSE IF labels[i] # -1 \/ ~IsCore(fs, i) THEN LabelFrom(fs, i + 1, labels, label_num)
    ELSE LET reached == Expand(fs, {i})
         IN  LabelFrom(fs, i + 1,
                       [j \in 1..Len(fs) |->
                           IF labels[j] = -1 /\ j \in reached THEN label_num ELSE labels[j]],
                       label_num + 1)

\* DBSCAN(eps, min_samples).fit(features_scaled).labels_
DBSCANLabels(fs) == LabelFrom(fs, 1, [j \in 1..Len(fs) |-> -1], 0)

\* (mutation: noise is grouped like a cluster)
IsNoise_never(label) == FALSE

\* not (label >= 0)
IsNoise(label) == label < 0

RECURSIVE GroupFrom(_, _, _)
\* the grouping loop: the clusters in the order their labels first appear,
\* each with its indices ascending
GroupFrom(labels, i, clusters) ==
    IF i > Len(labels) THEN clusters
    ELSE IF IsNoise(labels[i]) THEN GroupFrom(labels, i + 1, clusters)
    ELSE IF \E c \in 1..Len(clusters) : clusters[c].label = labels[i]
    THEN GroupFrom(labels, i + 1,
                   [c \in 1..Len(clusters) |->
                       IF clusters[c].label = labels[i]
                       THEN [clusters[c] EXCEPT !.indices = Append(@, i)]
                       ELSE clusters[c]])
    ELSE GroupFrom(labels, i + 1, Append(clusters, [label |-> labels[i], indices |-> <<i>>]))

cluster_trajectories(trajectories) ==
    IF Len(trajectories) < MIN_SAMPLES THEN <<>>
    ELSE GroupFrom(DBSCANLabels([i \in 1..Len(trajectories) |-> ScaledFeatures(trajectories[i])]),
                   1, <<>>)

-----------------------------------------------------------------------------
(* RouteSynthesizer: extract_route_from_cluster                            *)

RECURSIVE SumSeq(_)
SumSeq(s) == IF s = <<>> THEN 0 ELSE Head(s) + SumSeq(Tail(s))

\* num/den rounded to the nearest integer, halves to the even one (round())
RoundHalfEven(num, den) ==
    LET q == num \div den
        r == num % den
    IN  IF 2 * r < den THEN q
        ELSE IF 2 * r > den THEN q + 1
        ELSE IF q % 2 = 0 THEN q ELSE q + 1

\* np.mean of coordinates, to the nearest 1e-4 degree
MeanCoord(xs) == RoundHalfEven(SumSeq(xs), Len(xs))

HasDuration(t) == t.duration_minutes # 0

NoRoute == [origin |-> NoHub, destination |-> NoHub,
            origin_lat |-> 0, origin_lon |-> 0, dest_lat |-> 0, dest_lon |-> 0,
            distance_km |-> 0, avg_duration_minutes |-> Minutes(0), trip_count |-> 0]

\* (mutation: the test that origin and destination differ is left out)
RejectsCandidate_loops(origin_hub, dest_hub) == origin_hub = NoHub \/ dest_hub = NoHub

\* not origin_hub or not dest_hub or origin_hub == dest_hub
RejectsCandidate(origin_hub, dest_hub) ==
    origin_hub = NoHub \/ dest_hub = NoHub \/ origin_hub = dest_hub

\* trajectories: the cluster's summaries; cluster_trips: its Trip rows
extract_route_from_cluster(trajectories, cluster_trips) ==
    IF trajectories = <<>> THEN NoRoute
    ELSE
    LET n == Len(trajectories)
        avg_start_lat == MeanCoord([i \in 1..n |-> trajectories[i].start[1]])
        avg_start_lon == MeanCoord([i \in 1..n |-> trajectories[i].start[2]])
        avg_end_lat == MeanCoord([i \in 1..n |-> trajectories[i].end[1]])
        avg_end_lon == MeanCoord([i \in 1..n |-> trajectories[i].end[2]])
        origin_hub == find_nearest_hub(avg_start_lat, avg_start_lon, DefaultMaxDistance)
        dest_hub == find_nearest_hub(avg_end_lat, avg_end_lon, DefaultMaxDistance)
        \* sum of the distances in metres; avg_distance is total_m / (1000 n) km
        total_m == SumSeq([i \in 1..n |-> trajectories[i].distance_km])
        durations == SelectSeq(cluster_trips, HasDuration)
        total_minutes == SumSeq([i \in 1..Len(durations) |-> durations[i].duration_minutes])
        avg_duration ==
            IF durations = <<>> THEN NaN                     \* np.mean([])
            ELSE IF total_minutes = 0                        \* a mean of 0.0 is falsy
            THEN Minutes(RoundHalfEven(3 * total_m, 1000 * n))
            ELSE Minutes(RoundHalfEven(total_minutes, Len(durations)))
    IN  IF RejectsCandidate(origin_hub, dest_hub) THEN NoRoute
        ELSE [origin |-> origin_hub, destination |-> dest_hub,
              origin_lat |-> HubCoords(origin_hub)[1], origin_lon |-> HubCoords(origin_hub)[2],
              dest_lat |-> HubCoords(dest_hub)[1], dest_lon |-> HubCoords(dest_hub)[2],
              distance_km |-> RoundHalfEven(total_m, 100 * n),      \* tenths of a km
              avg_duration_minutes |-> avg_duration,
              trip_count |-> n]
-----------------------------------------------------------------------------
(* The trip store                                                          *)

\* the column gps_points_json: SQL NULL, text json.loads rejects, or JSON
\* text, held as the value json.loads returns for it
SqlNull == [text |-> "NULL", value |-> JNone]
Garbage == [text |-> "not JSON", value |-> JNone]
Json(v) == [text |-> "JSON", value |-> v]

\* class Trip.  created_days_ago is the age of created_at, in days, when
\* discovery runs.
TripRow(id, age, count, payload, duration) ==
    [trip_id |-> id, created_days_ago |-> age, gps_points_count |-> count,
     gps_points_json |-> payload, duration_minutes |-> duration]

\* json.loads(trip.gps_points_json)
json_loads(payload) ==
    IF payload.text = "JSON" THEN [err |-> "ok", value |-> payload.value]
    ELSE [err |-> "JSONDecodeError", value |-> JNone]

-----------------------------------------------------------------------------
(* DiscoveryOrchestrator: discover_routes                                  *)

\* the filter of the trip query
Fetched(trip, days_back) ==
    /\ trip.created_days_ago <= days_back
    /\ trip.gps_points_count >= MIN_GPS_POINTS
    /\ trip.gps_points_json.text # "NULL"

\* except (json.JSONDecodeError, TypeError)
Caught(err) == err \in {"JSONDecodeError", "TypeError"}

RECURSIVE ExtractFrom(_, _, _)
\* the extraction loop over the fetched trips from index i on; acc carries
\* trajectories and valid_trips, and err the exception that left the loop
ExtractFrom(fetched, i, acc) ==
    IF i > Len(fetched) THEN acc
    ELSE LET loaded == json_loads(fetched[i].gps_points_json)
             feat == IF loaded.err = "ok" THEN extract_trajectory_features(loaded.value)
                     ELSE NoSummary(loaded.err)
         IN  IF feat.status = "ok"
             THEN ExtractFrom(fetched, i + 1,
                              [acc EXCEPT !.trajectories = Append(@, feat),
                                          !.valid_trips = Append(@, fetched[i])])
             ELSE IF feat.status = "None" \/ Caught(feat.status)
             THEN ExtractFrom(fetched, i + 1, acc)
             ELSE [acc EXCEPT !.err = feat.status]

\* a report is the dict discover_routes returns, with the keys it has
AbortReport(n_trips, message) ==
    [success |-> FALSE, routes_discovered |-> 0, routes_updated |-> 0,
     trips_processed |-> n_trips, message |-> message]

NoReport == [message |-> "no report"]

IdleRun ==
    [pc |-> "idle", trips_processed |-> 0, trajectories |-> <<>>, valid_trips |-> <<>>,
     clusters |-> <<>>, ci |-> 0, routes_discovered |-> 0, routes_updated |-> 0,
     raised |-> "none", min_trips |-> 0]

EmptySession == [pending |-> <<>>, dirty |-> <<>>]

\* (mutation: the run goes on with too few trips)
TooFewTrips_never(n, min_trips) == FALSE

\* len(trips) < min_trips
TooFewTrips(n, min_trips) == n < min_trips

\* len(trajectories) < cls.MIN_SAMPLES
TooFewTrajectories(n) == n < MIN_SAMPLES

\* (mutation: an empty cluster set does not end the run)
NoClusters_never(clusters) == FALSE

\* not clusters
NoClusters(clusters) == clusters = <<>>

\* discover_routes up to the loop over the clusters: the run state and the
\* report it leaves
DiscoveryStart(store, days_back, min_trips) ==
    LET fetched == SelectSeq(store, LAMBDA t : Fetched(t, days_back))
        n == Len(fetched)
    IN  IF TooFewTrips(n, min_trips)
        THEN [run |-> [IdleRun EXCEPT !.pc = "done", !.trips_processed = n],
              report |-> AbortReport(n, "Not enough trips")]
        ELSE
        LET ex == ExtractFrom(fetched, 1, [trajectories |-> <<>>, valid_trips |-> <<>>, err |-> "none"])
        IN  IF ex.err # "none"
            THEN [run |-> [IdleRun EXCEPT !.pc = "raised", !.trips_processed = n,
                                          !.raised = ex.err],
                  report |-> NoReport]
            ELSE IF TooFewTrajectories(Len(ex.trajectories))
            THEN [run |-> [IdleRun EXCEPT !.pc = "done", !.trips_processed = n,
                                          !.trajectories = ex.trajectories,
                                          !.valid_trips = ex.valid_trips],
                  report |-> AbortReport(n, "Not enough valid trajectories")]
            ELSE
            LET clusters == cluster_trajectories(ex.trajectories)
            IN  IF NoClusters(clusters)
                THEN [run |-> [IdleRun EXCEPT !.pc = "done", !.trips_processed = n,
                                              !.trajectories = ex.trajectories,
                                              !.valid_trips = ex.valid_trips],
                      report |-> AbortReport(n, "No clusters found")]
                ELSE [run |-> [IdleRun EXCEPT !.pc = "clusters", !.trips_processed = n,
                                              !.trajectories = ex.trajectories,
                                              !.valid_trips = ex.valid_trips,
                                              !.clusters = clusters, !.ci = 1],
                      report |-> NoReport]

\* the row as a session sees it: its own modified copy, if it has one
SessionRowOf(sess, i) == IF i \in DOMAIN sess.dirty THEN sess.dirty[i] ELSE routes[i]

SessionRow(i) == SessionRowOf(session, i)

\* the rows the query for an existing route selects.  The session does not
\* autoflush (SessionLocal): the query reads the table, not session.pending.
ExistingRows(route_info) ==
    { i \in 1..Len(routes) : /\ routes[i].origin = route_info.origin
                             /\ routes[i].destination = route_info.destination }

\* (mutation: the candidate's count replaces the route's)
UpdatedRoute_overwrite(existing, route_info) ==
    [existing EXCEPT !.trip_count = route_info.trip_count,
                     !.avg_duration_minutes = HalfSum(@, route_info.avg_duration_minutes)]

\* Update existing route
UpdatedRoute(existing, route_info) ==
    [existing EXCEPT !.trip_count = @ + route_info.trip_count,
                     !.avg_duration_minutes = HalfSum(@, route_info.avg_duration_minutes)]

\* (mutation: the fare is not rounded to whole pounds)
FareEstimate_unrounded(distance_km) == distance_km \div 2

\* round(route_info['distance_km'] * 0.5, 0), in tenths; distance_km in tenths
FareEstimate(distance_km) == 10 * RoundHalfEven(distance_km, 20)

\* Create new route
NewRoute(route_info, stamp, n) ==
    [route_id |-> [prefix |-> "route_discovered", stamp |-> stamp, n |-> n],
     name |-> <<route_info.origin, route_info.destination>>,
     origin |-> route_info.origin, destination |-> route_info.destination,
     origin_lat |-> route_info.origin_lat, origin_lon |-> route_info.origin_lon,
     dest_lat |-> route_info.dest_lat, dest_lon |-> route_info.dest_lon,
     distance_km |-> route_info.distance_km,
     avg_duration_minutes |-> route_info.avg_duration_minutes,
     fare_egp |-> FareEstimate(route_info.distance_km),
     trip_count |-> route_info.trip_count,
     is_active |-> TRUE]

\* the candidate of the cluster the loop of run r is at
CandidateOf(r) ==
    LET indices == r.clusters[r.ci].indices
    IN  extract_route_from_cluster([k \in 1..Len(indices) |-> r.trajectories[indices[k]]],
                                   [k \in 1..Len(indices) |-> r.valid_trips[indices[k]]])

CurrentCandidate == CandidateOf(run)

\* no call of discover_routes, no trips
DiscoveryIdle ==
    /\ trips = <<>>
    /\ clock = 0
    /\ runs_started = 0
    /\ run = IdleRun
    /\ session = EmptySession
    /\ report = NoReport

NotSnapped == "not asked"

\* find_nearest_hub has not been asked
SnapIdle ==
    /\ hub_query = [lat |-> 0, lon |-> 0, max_distance_m |-> 0]
    /\ hub_result = NotSnapped

\* the jobs init_scheduler adds
JobIds == {"nightly_discovery", "trip_trigger_check"}

\* a job that is not running.  trips_at_last_run is history: the number of
\* trips with GPS data that were in the store when the job last called
\* discover_routes (-1: it has not)
IdleJob == [run |-> IdleRun, session |-> EmptySession, trips_at_last_run |-> -1]

\* no job is running
JobsIdle == jobs = [j \in JobIds |-> IdleJob]

-----------------------------------------------------------------------------
(* The drivers' accounts: routers trips, gamification, drivers and badges.  *)
(* Money is in tenths of an Egyptian pound, so that one point is worth one  *)
(* tenth (REWARD_RATE 0.1); quality scores are in hundredths.               *)

\* no row of table drivers for the driver_id asked about
NoDriver == [driver_id |-> "none"]

\* no request has been answered yet
NoResponse == [request |-> "none", status_code |-> 0]

\* the account before the driver registers
AccountIdle ==
    /\ driver = NoDriver
    /\ driver_trips = <<>>
    /\ points_transactions = <<>>
    /\ driver_badges = {}
    /\ driver_response = NoResponse

\* tier thresholds of calculate_tier
SilverPoints   == 500
GoldPoints     == 2000
PlatinumPoints == 5000
DiamondPoints  == 10000

calculate_tier(points) ==
    IF points >= DiamondPoints THEN "Diamond"
    ELSE IF points >= PlatinumPoints THEN "Platinum"
    ELSE IF points >= GoldPoints THEN "Gold"
    ELSE IF points >= SilverPoints THEN "Silver"
    ELSE "Bronze"

\* submit_trip refuses a trip with fewer GPS points
MinTripPoints == 5

\* calculate_quality_score, in hundredths.  gps_count is len(gps_points),
\* accurate the number of points with accuracy_meters below 20, jitter the
\* draw of random.uniform(-0.05, 0.05)
calculate_quality_score(gps_count, accurate, jitter) ==
    IF gps_count < MinTripPoints THEN 50
    ELSE LET sized == 70 + (IF gps_count >= 20 THEN 15
                            ELSE IF gps_count >= 10 THEN 10 ELSE 0)
             score == sized + (IF 10 * accurate > 8 * gps_count THEN 10 ELSE 0)
                            + jitter
         IN  IF score < 0 THEN 0 ELSE IF score > 100 THEN 100 ELSE score

\* calculate_points: int(gps_count * (0.5 + quality_score))
calculate_points(quality_score, gps_count) ==
    (gps_count * (50 + quality_score)) \div 100

\* the row register_driver inserts.  quality_avg is the fraction num / den
NewDriver ==
    [ driver_id         |-> "driver",
      total_points      |-> 0,
      tier              |-> "Bronze",
      trips_completed   |-> 0,
      quality_avg       |-> [num |-> 0, den |-> 1],
      longest_streak    |-> 0,
      rewards_earned    |-> 0,
      rewards_withdrawn |-> 0 ]

\* "rewards_available_egp" of driver_to_dict
rewards_available_egp(d) == d.rewards_earned - d.rewards_withdrawn

\* the running average of submit_trip:
\* (quality_avg * (trips_completed - 1) + quality_score) / trips_completed
RunningAverage(quality_avg, trips_completed, quality_score) ==
    [ num |-> quality_avg.num * (trips_completed - 1) + quality_score * quality_avg.den,
      den |-> quality_avg.den * trips_completed ]

\* a row of table points_transactions
Transaction(points, transaction_type, balance_after) ==
    [ points           |-> points,
      transaction_type |-> transaction_type,
      balance_after    |-> balance_after ]

\* the driver's row after submit_trip has counted a trip in
TripCounted(d, quality_score, points_earned) ==
    LET total == d.total_points + points_earned
        count == d.trips_completed + 1
    IN  [ d EXCEPT !.total_points    = total,
                   !.trips_completed = count,
                   !.rewards_earned  = total,
                   !.quality_avg     = RunningAverage(d.quality_avg, count, quality_score),
                   !.tier            = calculate_tier(total) ]

REWARD_RATE == 1
MIN_WITHDRAWAL_EGP == 50

\* amounts for which request.amount / REWARD_RATE, in binary floating point,
\* falls just short of the whole number (8.7 / 0.1 is 86.99999999999999)
QuotientFallsShort == {87}

\* int(request.amount / REWARD_RATE)
points_to_deduct(amount) ==
    IF amount \in QuotientFallsShort THEN amount \div REWARD_RATE - 1
    ELSE amount \div REWARD_RATE

\* the driver's row after request_withdrawal has paid amount out
Withdrawn(d, amount) ==
    LET total == d.total_points - points_to_deduct(amount)
    IN  [ d EXCEPT !.total_points      = total,
                   !.rewards_withdrawn = d.rewards_withdrawn + amount,
                   !.tier              = calculate_tier(total) ]

\* the rows init_badges inserts, in the order it inserts them
Badges ==
    << [badge_id |-> "first_trip",       requirement_type |-> "trips_count",   requirement_value |-> 1,    points_reward |-> 10],
       [badge_id |-> "trips_10",         requirement_type |-> "trips_count",   requirement_value |-> 10,   points_reward |-> 25],
       [badge_id |-> "trips_50",         requirement_type |-> "trips_count",   requirement_value |-> 50,   points_reward |-> 100],
       [badge_id |-> "trips_100",        requirement_type |-> "trips_count",   requirement_value |-> 100,  points_reward |-> 250],
       [badge_id |-> "quality_champion", requirement_type |-> "quality_avg",   requirement_value |-> 90,   points_reward |-> 50],
       [badge_id |-> "perfect_trip",     requirement_type |-> "perfect_trips", requirement_value |-> 1,    points_reward |-> 20],
       [badge_id |-> "streak_3",         requirement_type |-> "streak_days",   requirement_value |-> 3,    points_reward |-> 15],
       [badge_id |-> "streak_7",         requirement_type |-> "streak_days",   requirement_value |-> 7,    points_reward |-> 50],
       [badge_id |-> "streak_30",        requirement_type |-> "streak_days",   requirement_value |-> 30,   points_reward |-> 200],
       [badge_id |-> "points_100",       requirement_type |-> "total_points",  requirement_value |-> 100,  points_reward |-> 10],
       [badge_id |-> "points_500",       requirement_type |-> "total_points",  requirement_value |-> 500,  points_reward |-> 50],
       [badge_id |-> "points_1000",      requirement_type |-> "total_points",  requirement_value |-> 1000, points_reward |-> 100] >>

\* Trip.quality_score >= 0.99, counted over the driver's trips
perfect_count(quality_scores) ==
    Cardinality({ k \in DOMAIN quality_scores : quality_scores[k] >= 99 })

\* the requirement test of check_and_award_badges for one badge
Earned(badge, d, quality_scores) ==
    CASE badge.requirement_type = "trips_count" ->
             d.trips_completed >= badge.requirement_value
      [] badge.requirement_type = "quality_avg" ->
             d.quality_avg.num >= badge.requirement_value * d.quality_avg.den
      [] badge.requirement_type = "streak_days" ->
             d.longest_streak >= badge.requirement_value
      [] badge.requirement_type = "total_points" ->
             d.total_points + d.rewards_withdrawn >= badge.requirement_value
      [] badge.requirement_type = "perfect_trips" ->
             perfect_count(quality_scores) >= badge.requirement_value
      [] OTHER -> FALSE

\* the driver's row after a badge's bonus points were awarded
Awarded(d, badge) ==
    IF badge.points_reward > 0
    THEN [d EXCEPT !.total_points = d.total_points + badge.points_reward]
    ELSE d

\* the loop of check_and_award_badges from badge k on: d is the driver's row
\* so far, newly the badges awarded so far; earned_badge_ids is read once,
\* before the loop
RECURSIVE AwardFrom(_, _, _, _, _)
AwardFrom(k, d, newly, earned_badge_ids, quality_scores) ==
    IF k > Len(Badges) THEN [driver |-> d, newly_earned |-> newly]
    ELSE IF Badges[k].badge_id \in earned_badge_ids
         THEN AwardFrom(k + 1, d, newly, earned_badge_ids, quality_scores)
         ELSE IF Earned(Badges[k], d, quality_scores)
              THEN AwardFrom(k + 1, Awarded(d, Badges[k]),
                             newly \cup {Badges[k].badge_id},
                             earned_badge_ids, quality_scores)
              ELSE AwardFrom(k + 1, d, newly, earned_badge_ids, quality_scores)

-----------------------------------------------------------------------------
(* The matcher on its own: a route store, then queries                     *)

\* free text a caller may type
QueryTexts == {"Ramsis", "tahrir sq", "  GIZA ", "", "cairo tower", "ataba"}

\* stores of up to MaxRoutes sample routes in any order, each active or not
RECURSIVE StoresOfLen(_)
StoresOfLen(n) ==
    IF n = 0 THEN {<<>>}
    ELSE { Append(s, [SampleRoutes[k] EXCEPT !.is_active = a]) :
             s \in StoresOfLen(n - 1), k \in 1..Len(SampleRoutes), a \in BOOLEAN }

DistinctIds(s) == \A i, j \in 1..Len(s) : s[i].route_id = s[j].route_id => i = j

MatchStores ==
    { s \in UNION { StoresOfLen(n) : n \in 0..MaxRoutes } : DistinctIds(s) }

NotAsked == [matched |-> FALSE, route |-> NoRouteId, match_type |-> "not asked", confidence |-> 0]

MatchIdle ==
    /\ origin_text = ""
    /\ dest_text = ""
    /\ match_result = NotAsked

ExtractIdle ==
    /\ gps_points = JNone
    /\ presorted = JNone
    /\ permSteps = 0
    /\ features = NotRun
    /\ features_sorted = NotRun

MatchInit ==
    /\ routes \in MatchStores
    /\ MatchIdle
    /\ ExtractIdle
    /\ DiscoveryIdle
    /\ SnapIdle
    /\ JobsIdle
    /\ AccountIdle

MatchRoute(o, d) ==
    /\ origin_text' = o
    /\ dest_text' = d
    /\ match_result' = match_route(o, d, routes)
    /\ UNCHANGED <<routes, extractVars, discoveryVars, snapVars, jobs, gamificationVars>>

MatchNext == \E o \in QueryTexts, d \in QueryTexts : MatchRoute(o, d)

SpecMatch == MatchInit /\ [][MatchNext]_vars

\* the loop is at a cluster
AtCluster == run.pc = "clusters" /\ run.ci <= Len(run.clusters)

\* unique constraint on routes.route_id, over the rows the commit would leave
UniqueIds(rows) == \A i, j \in 1..Len(rows) : rows[i].route_id = rows[j].route_id => i = j

\* (mutation: every cluster that was not an update is reported as discovered)
SuccessReport_counts_all ==
    [success |-> TRUE, routes_discovered |-> Len(run.clusters) - run.routes_updated,
     routes_updated |-> run.routes_updated, trips_processed |-> run.trips_processed,
     clusters_found |-> Len(run.clusters), message |-> "Discovery complete"]

SuccessReport ==
    [success |-> TRUE, routes_discovered |-> run.routes_discovered,
     routes_updated |-> run.routes_updated, trips_processed |-> run.trips_processed,
     clusters_found |-> Len(run.clusters), message |-> "Discovery complete"]

-----------------------------------------------------------------------------
(* Discovery runs against a trip store and a route store                   *)

\* where the trips of the model start and end: at a hub, or displaced from it
Tahrir      == <<300444, 312357>>
SouthTahrir == <<300354, 312357>>     \* 1 km south of Tahrir Square
Ramses      == <<300619, 312466>>
NorthRamses == <<300709, 312466>>     \* 1 km north of Ramses Square
Desert      == <<302000, 310000>>     \* more than 2 km from every hub

\* a well-formed payload: MIN_GPS_POINTS fixes on the straight line from s to e
PathFix(s, e, i) ==
    GPSPoint(s[1] + ((e[1] - s[1]) * (i - 1)) \div (MIN_GPS_POINTS - 1),
             s[2] + ((e[2] - s[2]) * (i - 1)) \div (MIN_GPS_POINTS - 1), i)

Path(s, e) == [i \in 1..MIN_GPS_POINTS |-> PathFix(s, e, i)]

\* n trips of one kind, all recent, with ids from first on
Batch(n, first, s, e, duration) ==
    [k \in 1..n |-> TripRow(first + k - 1, 1, MIN_GPS_POINTS, Json(JList(Path(s, e))), duration)]

WithoutField(p, field) ==
    IF field = "latitude" THEN [p EXCEPT !.latitude = Absent]
    ELSE IF field = "timestamp" THEN [p EXCEPT !.timestamp = Absent]
    ELSE [p EXCEPT !.latitude = Str(1)]

Damaged(field) == [i \in 1..MIN_GPS_POINTS |-> WithoutField(PathFix(Tahrir, Ramses, i), field)]

\* one more trip: unreadable, not selected by the query, or ending elsewhere
OddTrips(id) == {
    TripRow(id, 1, MIN_GPS_POINTS, Garbage, 10),
    TripRow(id, 1, MIN_GPS_POINTS, Json(JNone), 10),
    TripRow(id, 1, MIN_GPS_POINTS, Json(JNumber(7)), 10),
    TripRow(id, 1, MIN_GPS_POINTS, Json(JString(12)), 10),
    TripRow(id, 1, MIN_GPS_POINTS, Json(JList(SubSeq(Path(Tahrir, Ramses), 1, MIN_GPS_POINTS - 1))), 10),
    TripRow(id, 1, MIN_GPS_POINTS, Json(JList(Damaged("latitude"))), 10),
    TripRow(id, 1, MIN_GPS_POINTS, Json(JList(Damaged("timestamp"))), 10),
    TripRow(id, 1, MIN_GPS_POINTS, Json(JList(Damaged("latitude type"))), 10),
    TripRow(id, 45, MIN_GPS_POINTS, Json(JList(Path(Tahrir, Ramses))), 10),
    TripRow(id, 1, MIN_GPS_POINTS - 1, Json(JList(Path(Tahrir, Ramses))), 10),
    TripRow(id, 1, MIN_GPS_POINTS, SqlNull, 10),
    TripRow(id, 1, MIN_GPS_POINTS, Json(JList(Path(Desert, Ramses))), 10) }

\* n trips of one kind created 45 days ago: outside a window of 30 days
OldBatch(n, first, s, e, duration) ==
    [k \in 1..n |-> [Batch(n, first, s, e, duration)[k] EXCEPT !.created_days_ago = 45]]

\* a batch that may follow the first two
ThirdBatches(first) ==
    {<<>>,
     OldBatch(MaxClusterTrips, first, Ramses, Tahrir, 9),       \* seen by a longer window only
     Batch(MaxClusterTrips, first, Tahrir, SouthTahrir, 5),     \* both ends snap to Tahrir Square
     Batch(MaxClusterTrips, first, Desert, Ramses, 7),          \* the start snaps to no hub
     Batch(MaxClusterTrips, first, Ramses, Tahrir, 9)}          \* the pair of route_015

FirstBatchSizes == {0} \cup ((MIN_SAMPLES - 1)..MaxClusterTrips)

TripStores ==
    { Batch(a, 1, Tahrir, Ramses, 12) \o Batch(b, a + 1, SouthTahrir, NorthRamses, 0) :
        a \in FirstBatchSizes, b \in {0, MaxClusterTrips} }
    \cup
    { Batch(MaxClusterTrips, 1, Tahrir, Ramses, 12) \o third :
        third \in ThirdBatches(MaxClusterTrips + 1) }
    \cup
    { Batch(a, 1, Tahrir, Ramses, 12) \o <<odd>> :
        a \in {MIN_SAMPLES - 1, MIN_SAMPLES}, odd \in OddTrips(2 * MaxClusterTrips + 1) }
    \cup
    \* trips to Ramses Square that start 300 m from one another along a line:
    \* the inner ones are dense, the two at the ends are not
    { [k \in 1..5 |-> TripRow(k, 1, MIN_GPS_POINTS,
                               Json(JList(Path(<<Tahrir[1] + 27 * (k - 1), Tahrir[2]>>, Ramses))), 12)] }
    \cup
    \* a cluster that synthesis rejects, ahead of one it accepts
    { Batch(MaxClusterTrips, 1, Desert, Ramses, 7)
        \o Batch(MaxClusterTrips, MaxClusterTrips + 1, Tahrir, Ramses, 12) }

RouteStores == {<<>>, <<SampleRoutes[1], SampleRoutes[2]>>}

DaysBackChoices == {30, 60}
MinTripsChoices == {1, 7}

DiscoveryInit ==
    /\ trips \in TripStores
    /\ routes \in RouteStores
    /\ clock = 0
    /\ runs_started = 0
    /\ run = IdleRun
    /\ session = EmptySession
    /\ report = NoReport
    /\ ExtractIdle
    /\ MatchIdle
    /\ SnapIdle
    /\ JobsIdle
    /\ AccountIdle

\* discover_routes is called: the query, the extraction and the clustering
StartDiscovery(days_back, min_trips) ==
    /\ run.pc = "idle"
    /\ runs_started < MaxRuns
    /\ LET out == DiscoveryStart(trips, days_back, min_trips)
       IN  /\ run' = [out.run EXCEPT !.min_trips = min_trips]
           /\ report' = out.report
    /\ session' = EmptySession
    /\ runs_started' = runs_started + 1
    /\ UNCHANGED <<trips, routes, clock, extractVars, matchVars, snapVars, jobs, gamificationVars>>

\* one pass of the loop over the clusters: no candidate and nothing done, or
\* the route the query returns updated, or a new route added.  The new row's
\* id is stamped with datetime.utcnow(), which has not gone back since it was
\* last read.
ProcessCluster ==
    /\ AtCluster
    /\ LET route_info == CurrentCandidate
       IN  IF route_info = NoRoute
           THEN /\ run' = [run EXCEPT !.ci = @ + 1]
                /\ UNCHANGED <<session, clock>>
           ELSE \/ \* the query for an existing route raises: the store cannot be read
                   /\ run' = [run EXCEPT !.pc = "raised", !.raised = "OperationalError"]
                   /\ UNCHANGED <<session, clock>>
                \/ /\ ExistingRows(route_info) # {}
                   /\ \E existing \in ExistingRows(route_info) :
                        session' = [session EXCEPT !.dirty =
                                      (existing :> UpdatedRoute(SessionRow(existing), route_info)) @@ @]
                   /\ run' = [run EXCEPT !.ci = @ + 1, !.routes_updated = @ + 1]
                   /\ UNCHANGED clock
                \/ /\ ExistingRows(route_info) = {}
                   /\ \E now \in clock..MaxClock :
                        /\ clock' = now
                        /\ session' = [session EXCEPT !.pending =
                                         Append(@, NewRoute(route_info, now, run.routes_discovered))]
                   /\ run' = [run EXCEPT !.ci = @ + 1, !.routes_discovered = @ + 1]
    /\ UNCHANGED <<trips, routes, runs_started, report, extractVars, matchVars, snapVars, jobs, gamificationVars>>

\* db.commit() and the return of the report; a duplicate route_id makes the
\* commit raise and nothing is written
Commit ==
    /\ run.pc = "clusters"
    /\ run.ci > Len(run.clusters)
    /\ LET rows == [i \in 1..Len(routes) |-> SessionRow(i)] \o session.pending
       IN  IF UniqueIds(rows)
           THEN /\ routes' = rows
                /\ report' = SuccessReport
                /\ run' = [run EXCEPT !.pc = "done"]
           ELSE /\ routes' = routes
                /\ report' = NoReport
                /\ run' = [run EXCEPT !.pc = "raised", !.raised = "IntegrityError"]
    /\ session' = EmptySession
    /\ UNCHANGED <<trips, clock, runs_started, extractVars, matchVars, snapVars, jobs, gamificationVars>>

\* (mutation: closing the session writes the rows it had added)
AfterClose_flushes(store, changes) == store \o changes.pending

\* db.close(): what the session had not committed is rolled back
AfterClose(store, changes) == store

\* the caller has the report (or the exception) and closes the session
Return ==
    /\ run.pc \in {"done", "raised"}
    /\ run' = IdleRun
    /\ report' = NoReport
    /\ routes' = AfterClose(routes, session)
    /\ session' = EmptySession
    /\ UNCHANGED <<trips, clock, runs_started, extractVars, matchVars, snapVars, jobs, gamificationVars>>

DiscoveryNext ==
    \/ \E days_back \in DaysBackChoices, min_trips \in MinTripsChoices :
          StartDiscovery(days_back, min_trips)
    \/ ProcessCluster
    \/ Commit
    \/ Return

SpecDiscovery == DiscoveryInit /\ [][DiscoveryNext]_vars

-----------------------------------------------------------------------------
(* find_nearest_hub on its own: a point and a maximum distance, then the call *)

\* halfway between Ramses Square and Zamalek, the two hubs nearest to it
BetweenRamsesAndZamalek == <<300614, 312330>>

\* the points asked about: a grid around that point, 500 m or so apart, a hub
\* itself, and a point far from every hub
SnapPoints ==
    { <<BetweenRamsesAndZamalek[1] + 45 * i, BetweenRamsesAndZamalek[2] + 52 * j>> :
        i, j \in (-MaxSnapSteps)..MaxSnapSteps }
    \cup {Ramses, Desert}

\* max_distance_m: nothing, the distance of the two hubs from the point
\* between them and a metre less, the default, and more than any distance
SnapLimits == {0, 1305, 1306, DefaultMaxDistance, 60000}

SnapInit ==
    /\ hub_query \in [lat : {p[1] : p \in SnapPoints}, lon : {p[2] : p \in SnapPoints},
                       max_distance_m : SnapLimits]
    /\ <<hub_query.lat, hub_query.lon>> \in SnapPoints
    /\ hub_result = NotSnapped
    /\ routes = <<>>
    /\ ExtractIdle
    /\ MatchIdle
    /\ DiscoveryIdle
    /\ JobsIdle
    /\ AccountIdle

\* the call find_nearest_hub(lat, lon, max_distance_m)
Snap ==
    /\ hub_result = NotSnapped
    /\ hub_result' = find_nearest_hub(hub_query.lat, hub_query.lon, hub_query.max_distance_m)
    /\ UNCHANGED <<hub_query, routes, extractVars, matchVars, discoveryVars, jobs, gamificationVars>>

SnapNext == Snap

SpecSnap == SnapInit /\ [][SnapNext]_vars

-----------------------------------------------------------------------------
(* RouteMatchingService: estimate_distance and find_nearest_hub over the   *)
(* origins of the route store                                              *)

\* round(straight_distance * road_factor, 2) with road_factor 1.35, in
\* hundredths of a km
estimate_distance(origin_lat, origin_lon, dest_lat, dest_lon) ==
    RoundHalfEven(135 * haversine_distance(origin_lat, origin_lon, dest_lat, dest_lon), 1000)

\* the answers of the route-store find_nearest_hub: None, and a dict
NoOrigin == [name |-> NoHub]
NotLooked == [name |-> "not asked"]

\* (mutation: an origin name met before is looked at again)
AlreadySeen_never(origin, seen_origins) == FALSE

\* route.origin in seen_origins
AlreadySeen(origin, seen_origins) == origin \in seen_origins

RECURSIVE NearestOriginFrom(_, _, _, _, _, _, _, _)
\* the loop over the active routes from index i on, carrying seen_origins,
\* nearest and min_distance (-1 stands for float('inf'))
NearestOriginFrom(lat, lon, max_distance_km, rs, i, seen_origins, nearest, min_distance) ==
    IF i > Len(rs) THEN nearest
    ELSE IF AlreadySeen(rs[i].origin, seen_origins)
    THEN NearestOriginFrom(lat, lon, max_distance_km, rs, i + 1, seen_origins, nearest, min_distance)
    ELSE LET distance == estimate_distance(lat, lon, rs[i].origin_lat, rs[i].origin_lon)
             seen == seen_origins \cup {rs[i].origin}
         IN  IF (min_distance = -1 \/ distance < min_distance) /\ distance <= max_distance_km
             THEN NearestOriginFrom(lat, lon, max_distance_km, rs, i + 1, seen,
                                    [name |-> rs[i].origin, lat |-> rs[i].origin_lat,
                                     lon |-> rs[i].origin_lon, distance_km |-> distance],
                                    distance)
             ELSE NearestOriginFrom(lat, lon, max_distance_km, rs, i + 1, seen, nearest, min_distance)

\* RouteMatchingService.find_nearest_hub(lat, lon, db, max_distance_km)
nearest_route_origin(lat, lon, store, max_distance_km) ==
    NearestOriginFrom(lat, lon, max_distance_km, SelectSeq(store, IsActive), 1, {}, NoOrigin, -1)

\* the default of the parameter max_distance_km, in hundredths of a km
DefaultMaxDistanceKm == 500

\* max_distance_km: the least the endpoint accepts (0.1), the default, the most (20)
OriginLimits == {10, DefaultMaxDistanceKm, 2000}

\* rows a store may hold: two sample routes, and one whose origin carries the
\* name of the first with coordinates of its own
OriginRows ==
    {SampleRoutes[1], SampleRoutes[3],
     [SampleRoutes[2] EXCEPT !.origin_lat = Desert[1], !.origin_lon = Desert[2]]}

RECURSIVE OriginStoresOfLen(_)
OriginStoresOfLen(n) ==
    IF n = 0 THEN {<<>>}
    ELSE { Append(st, [row EXCEPT !.is_active = a]) :
             st \in OriginStoresOfLen(n - 1), row \in OriginRows, a \in BOOLEAN }

OriginStores ==
    { st \in UNION { OriginStoresOfLen(n) : n \in 0..MaxRoutes } : DistinctIds(st) }

OriginInit ==
    /\ routes \in OriginStores
    /\ hub_query \in [lat : {pt[1] : pt \in SnapPoints}, lon : {pt[2] : pt \in SnapPoints},
                       max_distance_km : OriginLimits]
    /\ <<hub_query.lat, hub_query.lon>> \in SnapPoints
    /\ hub_result = NotLooked
    /\ ExtractIdle
    /\ MatchIdle
    /\ DiscoveryIdle
    /\ JobsIdle
    /\ AccountIdle

\* GET /routes/nearest-hub
NearestOrigin ==
    /\ hub_result = NotLooked
    /\ hub_result' = nearest_route_origin(hub_query.lat, hub_query.lon, routes,
                                          hub_query.max_distance_km)
    /\ UNCHANGED <<hub_query, routes, extractVars, matchVars, discoveryVars, jobs, gamificationVars>>

OriginNext == NearestOrigin

SpecOrigin == OriginInit /\ [][OriginNext]_vars

-----------------------------------------------------------------------------
(* One driver's account under the requests that change it: register_driver, *)
(* submit_trip, request_withdrawal and check_and_award_badges               *)

MaxDriverTrips == 2
MaxWithdrawals == 1

\* len(gps_points) of the trips submitted
GpsCounts == {4, 12, 350}
\* draws of random.uniform(-0.05, 0.05), in hundredths
Jitters == {-5, 5}
\* request.amount of the withdrawals asked for: 4.9, 5.0, 8.7 and 40.0 pounds
WithdrawalAmounts == {49, 50, 87, 400}

Response(request, status_code) == [request |-> request, status_code |-> status_code]

Withdrawals == { k \in DOMAIN points_transactions :
                   points_transactions[k].transaction_type = "withdrawn" }

AccountInit ==
    /\ AccountIdle
    /\ routes = <<>>
    /\ ExtractIdle
    /\ MatchIdle
    /\ DiscoveryIdle
    /\ SnapIdle
    /\ JobsIdle

\* POST /drivers/register: a phone that already has a driver gets that
\* driver back, unchanged
RegisterDriver ==
    /\ driver' = IF driver = NoDriver THEN NewDriver ELSE driver
    /\ driver_response' = Response("register_driver", 200)
    /\ UNCHANGED <<driver_trips, points_transactions, driver_badges>>
    /\ UNCHANGED <<extractVars, routes, matchVars, discoveryVars, snapVars, jobs>>

\* POST /trips
SubmitTrip(gps_count, accurate, jitter) ==
    /\ Len(driver_trips) < MaxDriverTrips
    /\ IF driver = NoDriver
       THEN /\ driver_response' = Response("submit_trip", 404)
            /\ UNCHANGED <<driver, driver_trips, points_transactions>>
       ELSE IF gps_count < MinTripPoints
            THEN /\ driver_response' = Response("submit_trip", 400)
                 /\ UNCHANGED <<driver, driver_trips, points_transactions>>
            ELSE LET quality_score == calculate_quality_score(gps_count, accurate, jitter)
                     points_earned == calculate_points(quality_score, gps_count)
                     after         == TripCounted(driver, quality_score, points_earned)
                 IN  /\ driver_trips' = Append(driver_trips, quality_score)
                     /\ driver' = after
                     /\ points_transactions' =
                            Append(points_transactions,
                                   Transaction(points_earned, "earned", after.total_points))
                     /\ driver_response' = Response("submit_trip", 200)
    /\ UNCHANGED driver_badges
    /\ UNCHANGED <<extractVars, routes, matchVars, discoveryVars, snapVars, jobs>>

\* POST /gamification/drivers/{driver_id}/withdraw
RequestWithdrawal(amount) ==
    /\ Cardinality(Withdrawals) < MaxWithdrawals
    /\ IF driver = NoDriver
       THEN /\ driver_response' = Response("request_withdrawal", 404)
            /\ UNCHANGED <<driver, points_transactions>>
       ELSE IF \/ amount < MIN_WITHDRAWAL_EGP
               \/ amount > driver.total_points * REWARD_RATE
            THEN /\ driver_response' = Response("request_withdrawal", 400)
                 /\ UNCHANGED <<driver, points_transactions>>
            ELSE LET after == Withdrawn(driver, amount)
                 IN  /\ driver' = after
                     /\ points_transactions' =
                            Append(points_transactions,
                                   Transaction(-points_to_deduct(amount), "withdrawn",
                                               after.total_points))
                     /\ driver_response' = Response("request_withdrawal", 200)
    /\ UNCHANGED <<driver_trips, driver_badges>>
    /\ UNCHANGED <<extractVars, routes, matchVars, discoveryVars, snapVars, jobs>>

\* POST /badges/driver/{driver_id}/check
CheckAndAwardBadges ==
    /\ IF driver = NoDriver
       THEN /\ driver_response' = Response("check_and_award_badges", 404)
            /\ UNCHANGED <<driver, driver_badges>>
       ELSE LET result == AwardFrom(1, driver, {}, driver_badges, driver_trips)
            IN  /\ driver' = result.driver
                /\ driver_badges' = driver_badges \cup result.newly_earned
                /\ driver_response' = Response("check_and_award_badges", 200)
    /\ UNCHANGED <<driver_trips, points_transactions>>
    /\ UNCHANGED <<extractVars, routes, matchVars, discoveryVars, snapVars, jobs>>

AccountNext ==
    \/ RegisterDriver
    \/ \E gps_count \in GpsCounts, accurate \in BOOLEAN, jitter \in Jitters :
           SubmitTrip(gps_count, IF accurate THEN gps_count ELSE 0, jitter)
    \/ \E amount \in WithdrawalAmounts : RequestWithdrawal(amount)
    \/ CheckAndAwardBadges

SpecAccount == AccountInit /\ [][AccountNext]_vars

-----------------------------------------------------------------------------
(* The scheduler: two jobs, each running discover_routes on a session of   *)
(* its own against the one store                                           *)

\* "ready_for_discovery": trips_with_gps >= 50
min_trips_required == 50

\* if stats['trips_with_gps'] >= 100
trip_threshold == 100

get_discovery_stats(store) ==
    LET trips_with_gps ==
            Cardinality({ i \in 1..Len(store) : store[i].gps_points_count >= MIN_GPS_POINTS })
    IN  [total_trips |-> Len(store),
         trips_with_gps |-> trips_with_gps,
         ready_for_discovery |-> trips_with_gps >= min_trips_required,
         min_trips_required |-> min_trips_required]

\* what run_route_discovery starts: nothing when the store is not ready, else
\* discover_routes(db, days_back=30, min_trips=50)
run_route_discovery(store) ==
    IF ~get_discovery_stats(store).ready_for_discovery
    THEN [IdleRun EXCEPT !.pc = "done"]
    ELSE [DiscoveryStart(store, 30, 50).run EXCEPT !.min_trips = 50]

\* what check_discovery_trigger starts
check_discovery_trigger(store) ==
    IF get_discovery_stats(store).trips_with_gps >= trip_threshold
    THEN run_route_discovery(store)
    ELSE [IdleRun EXCEPT !.pc = "done"]

\* the function a job calls
JobFunction(j, store) ==
    IF j = "nightly_discovery" THEN run_route_discovery(store)
    ELSE check_discovery_trigger(store)

\* the job's function gets as far as the call of discover_routes
CallsDiscovery(j, store) ==
    /\ get_discovery_stats(store).ready_for_discovery
    /\ j = "trip_trigger_check" => get_discovery_stats(store).trips_with_gps >= trip_threshold

\* the stores the scheduler is started on: enough trips for the hourly
\* trigger (half of them older than the window of the run), enough for the
\* nightly job only, and too few for either
SchedulerTripStores ==
    { Batch(min_trips_required \div 2, 1, Tahrir, Ramses, 12)
        \o Batch(min_trips_required \div 2, min_trips_required \div 2 + 1, Ramses, Tahrir, 9)
        \o OldBatch(trip_threshold - min_trips_required, min_trips_required + 1, Tahrir, Ramses, 12),
      Batch(min_trips_required, 1, Tahrir, Ramses, 12),
      Batch(min_trips_required - 1, 1, Tahrir, Ramses, 12) }

SchedulerInit ==
    /\ trips \in SchedulerTripStores
    /\ routes \in RouteStores
    /\ clock = 0
    /\ runs_started = 0
    /\ run = IdleRun
    /\ session = EmptySession
    /\ report = NoReport
    /\ ExtractIdle
    /\ MatchIdle
    /\ SnapIdle
    /\ JobsIdle
    /\ AccountIdle

\* the scheduler starts job j on a thread of its pool: the job is not
\* running (max_instances is 1), whatever the other job is doing
JobFire(j) ==
    /\ jobs[j].run.pc = "idle"
    /\ runs_started < MaxRuns
    /\ jobs' = [jobs EXCEPT ![j] =
                  [run |-> JobFunction(j, trips), session |-> EmptySession,
                   trips_at_last_run |-> IF CallsDiscovery(j, trips)
                                         THEN get_discovery_stats(trips).trips_with_gps
                                         ELSE jobs[j].trips_at_last_run]]
    /\ runs_started' = runs_started + 1
    /\ UNCHANGED <<trips, routes, clock, run, session, report, extractVars, matchVars, snapVars, gamificationVars>>

\* one pass of the loop over the clusters in the run of job j
JobProcessCluster(j) ==
    LET r == jobs[j].run
        sess == jobs[j].session
    IN  /\ r.pc = "clusters"
        /\ r.ci <= Len(r.clusters)
        /\ LET route_info == CandidateOf(r)
           IN  IF route_info = NoRoute
               THEN /\ jobs' = [jobs EXCEPT ![j].run.ci = @ + 1]
                    /\ UNCHANGED clock
               ELSE \/ /\ jobs' = [jobs EXCEPT ![j].run.pc = "raised",
                                                ![j].run.raised = "OperationalError"]
                       /\ UNCHANGED clock
                    \/ /\ ExistingRows(route_info) # {}
                       /\ \E existing \in ExistingRows(route_info) :
                            jobs' = [jobs EXCEPT
                                       ![j].session.dirty =
                                           (existing :> UpdatedRoute(SessionRowOf(sess, existing), route_info)) @@ @,
                                       ![j].run.ci = @ + 1,
                                       ![j].run.routes_updated = @ + 1]
                       /\ UNCHANGED clock
                    \/ /\ ExistingRows(route_info) = {}
                       /\ \E now \in clock..MaxClock :
                            /\ clock' = now
                            /\ jobs' = [jobs EXCEPT
                                          ![j].session.pending =
                                              Append(@, NewRoute(route_info, now, r.routes_discovered)),
                                          ![j].run.ci = @ + 1,
                                          ![j].run.routes_discovered = @ + 1]
        /\ UNCHANGED <<trips, routes, runs_started, run, session, report, extractVars, matchVars, snapVars, gamificationVars>>

\* db.commit() in the run of job j: the rows its session modified and added
\* are written over the store as it is now
JobCommit(j) ==
    LET r == jobs[j].run
        sess == jobs[j].session
        rows == [i \in 1..Len(routes) |-> SessionRowOf(sess, i)] \o sess.pending
    IN  /\ r.pc = "clusters"
        /\ r.ci > Len(r.clusters)
        /\ IF UniqueIds(rows)
           THEN /\ routes' = rows
                /\ jobs' = [jobs EXCEPT ![j].run.pc = "done", ![j].session = EmptySession]
           ELSE /\ routes' = routes
                /\ jobs' = [jobs EXCEPT ![j].run.pc = "raised",
                                         ![j].run.raised = "IntegrityError",
                                         ![j].session = EmptySession]
        /\ UNCHANGED <<trips, clock, runs_started, run, session, report, extractVars, matchVars, snapVars, gamificationVars>>

\* the job logs the outcome and closes its session
JobReturn(j) ==
    /\ jobs[j].run.pc \in {"done", "raised"}
    /\ routes' = AfterClose(routes, jobs[j].session)
    /\ jobs' = [jobs EXCEPT ![j].run = IdleRun, ![j].session = EmptySession]
    /\ UNCHANGED <<trips, clock, runs_started, run, session, report, extractVars, matchVars, snapVars, gamificationVars>>

SchedulerNext ==
    \E j \in JobIds :
        \/ JobFire(j)
        \/ JobProcessCluster(j)
        \/ JobCommit(j)
        \/ JobReturn(j)

SpecScheduler == SchedulerInit /\ [][SchedulerNext]_vars

-----------------------------------------------------------------------------
(* The extractor on its own: lists of fixes, reordered, then extracted     *)

\* A timestamp-sorted list of n fixes along a street.  With tie = 0 all
\* timestamps differ; otherwise fixes tie and tie+1 carry the same timestamp,
\* at different positions when apart, at one position when not.
FixAt(i, tie, apart) ==
    LET pos == IF tie > 0 /\ i = tie + 1 /\ ~apart THEN tie ELSE i
        ts  == IF tie > 0 /\ i > tie THEN i - 1 ELSE i
    IN  GPSPoint(300444 + 10 * pos, 312357 + 7 * (pos % 3), ts)

SortedFixes(n, tie, apart) == [i \in 1..n |-> FixAt(i, tie, apart)]

ExtractInputs ==
    {JNone} \cup
    { JList(SortedFixes(n, tie, apart)) :
        n \in 0..MaxFixes, tie \in 0..(MaxFixes - 1), apart \in BOOLEAN }

Swapped(s, i, j) ==
    [k \in 1..Len(s) |-> IF k = i THEN s[j] ELSE IF k = j THEN s[i] ELSE s[k]]

Reversed(s) == [k \in 1..Len(s) |-> s[Len(s) + 1 - k]]

ExtractInit ==
    /\ presorted \in ExtractInputs
    /\ gps_points = presorted
    /\ permSteps = 0
    /\ features = NotRun
    /\ features_sorted = NotRun
    /\ routes = <<>>
    /\ MatchIdle
    /\ DiscoveryIdle
    /\ SnapIdle
    /\ JobsIdle
    /\ AccountIdle

\* the caller hands the fixes over in another order
SwapFixes(i) ==
    /\ features = NotRun
    /\ permSteps < MaxPermSteps
    /\ i + 1 <= Len(gps_points.items)
    /\ gps_points' = JList(Swapped(gps_points.items, i, i + 1))
    /\ permSteps' = permSteps + 1
    /\ UNCHANGED <<presorted, features, features_sorted, routes, matchVars, discoveryVars, snapVars, jobs, gamificationVars>>

ReverseFixes ==
    /\ features = NotRun
    /\ permSteps < MaxPermSteps
    /\ Len(gps_points.items) >= 2
    /\ gps_points' = JList(Reversed(gps_points.items))
    /\ permSteps' = permSteps + 1
    /\ UNCHANGED <<presorted, features, features_sorted, routes, matchVars, discoveryVars, snapVars, jobs, gamificationVars>>

Extract ==
    /\ features = NotRun
    /\ features' = extract_trajectory_features(gps_points)
    /\ features_sorted' = extract_trajectory_features(presorted)
    /\ UNCHANGED <<gps_points, presorted, permSteps, routes, matchVars, discoveryVars, snapVars, jobs, gamificationVars>>

ExtractNext ==
    \/ \E i \in 1..MaxFixes : SwapFixes(i)
    \/ ReverseFixes
    \/ Extract

SpecExtract == ExtractInit /\ [][ExtractNext]_vars

-----------------------------------------------------------------------------
(* Claims                                                                  *)

\* any two fixes of the list that share a timestamp are at the same position
TiedFixesCoincide(items) ==
    \A i, j \in 1..Len(items) :
        items[i].timestamp = items[j].timestamp
            => /\ items[i].latitude = items[j].latitude
               /\ items[i].longitude = items[j].longitude

\* C9 (as claimed): for every list of at least MIN_GPS_POINTS fixes, every
\* reordering of it (fixes sharing a timestamp at different positions
\* included) gives the same summary as the list given sorted by timestamp.
C9_AnyOrderSameSummary ==
    (features # NotRun /\ gps_points.n >= MIN_GPS_POINTS)
        => features = features_sorted

\* C9 (amended): the same, for lists in which fixes that share a timestamp
\* are at the same position.
C9_OrderIndependentWithoutTies ==
    (features # NotRun /\ gps_points.n >= MIN_GPS_POINTS
        /\ TiedFixesCoincide(gps_points.items))
        => /\ features.status = "ok"
           /\ features.start = features_sorted.start
           /\ features.end = features_sorted.end
           /\ features.distance_km = features_sorted.distance_km
           /\ features.point_count = features_sorted.point_count

C9_Witness ==
    /\ features.status = "ok"
    /\ gps_points.items # presorted.items
    /\ TiedFixesCoincide(gps_points.items)
    /\ \E i, j \in 1..Len(gps_points.items) :
          i # j /\ gps_points.items[i].timestamp = gps_points.items[j].timestamp

\* C10: fewer than MIN_GPS_POINTS fixes (the empty and the missing input
\* included) give no summary; a well-formed list of at least MIN_GPS_POINTS
\* fixes gives a summary whose point_count is the length of the input.
C10_SummaryIffEnoughPoints ==
    features # NotRun =>
        /\ (gps_points.t = "NoneType" \/ Len(gps_points.items) < MIN_GPS_POINTS)
              => features.status = "None"
        /\ (gps_points.t = "list" /\ Len(gps_points.items) >= MIN_GPS_POINTS)
              => /\ features.status = "ok"
                 /\ features.point_count = Len(gps_points.items)

C10_Witness ==
    /\ features.status = "None"
    /\ gps_points.t = "list"
    /\ Len(gps_points.items) = MIN_GPS_POINTS - 1

\* the active rows of the route store
ActiveRows == { i \in 1..Len(routes) : routes[i].is_active }

\* the canonical names of the last query's two texts
QueryOriginCanonical == get_canonical_name(CodePoints[origin_text])
QueryDestCanonical == get_canonical_name(CodePoints[dest_text])

\* spec 4.8, score 1.0: both texts resolve, to the canonical names of the
\* route's origin and destination
IsExactFor(r) ==
    /\ QueryOriginCanonical # NoneName
    /\ QueryDestCanonical # NoneName
    /\ get_canonical_name(CodePoints[r.origin]) = QueryOriginCanonical
    /\ get_canonical_name(CodePoints[r.destination]) = QueryDestCanonical

\* spec 4.8, the substring test of one end: normalized substring match in
\* either direction, or the text's canonical name inside the route's end
SubstringTest(text, route_end) ==
    LET t == normalize_text(CodePoints[text])
        e == normalize_text(CodePoints[route_end])
        c == get_canonical_name(CodePoints[text])
    IN  \/ IsSubstring(t, e)
        \/ IsSubstring(e, t)
        \/ (c # NoneName /\ IsSubstring(CodePoints[c], e))

EndsMatched(r) ==
    (IF SubstringTest(origin_text, r.origin) THEN 1 ELSE 0)
        + (IF SubstringTest(dest_text, r.destination) THEN 1 ELSE 0)

\* the score of spec 4.8, in tenths
ScoreOf(r) ==
    IF IsExactFor(r) THEN 10
    ELSE IF EndsMatched(r) = 2 THEN 8
    ELSE IF EndsMatched(r) = 1 THEN 4
    ELSE 0

C8_MatchedIffScoreReachesThreshold ==
    match_result # NotAsked =>
        /\ match_result.matched <=> \E i \in ActiveRows : ScoreOf(routes[i]) >= 4
        /\ match_result.matched =>
             /\ match_result.confidence \in {4, 8, 10}
             /\ \E i \in ActiveRows :
                  /\ routes[i].route_id = match_result.route
                  /\ ScoreOf(routes[i]) = match_result.confidence
        /\ (\A i \in ActiveRows : ScoreOf(routes[i]) = 0) =>
             /\ ~match_result.matched
             /\ match_result.route = NoRouteId
             /\ match_result.match_type = "none"
             /\ match_result.confidence = 0

C8_Witness ==
    /\ match_result.matched
    /\ match_result.confidence = 4
    /\ \E i \in ActiveRows : ScoreOf(routes[i]) = 0


-----------------------------------------------------------------------------
(* Claims about discover_routes                                            *)

\* the number of trips the query of a call with this days_back fetches
FetchedCount(days_back) ==
    Cardinality({ i \in 1..Len(trips) : Fetched(trips[i], days_back) })

\* what the extraction loop of such a call leaves
Extracted(days_back) ==
    ExtractFrom(SelectSeq(trips, LAMBDA t : Fetched(t, days_back)), 1,
                [trajectories |-> <<>>, valid_trips |-> <<>>, err |-> "none"])

\* r is a report of a run that did nothing, over n trips
Refused(r, n) ==
    /\ {"success", "routes_discovered", "routes_updated", "trips_processed"} \subseteq DOMAIN r
    /\ r.success = FALSE
    /\ r.routes_discovered = 0
    /\ r.routes_updated = 0
    /\ r.trips_processed = n

\* C1: a call that fetches fewer trips than min_trips returns a report with
\* success false, no route discovered or updated and trips_processed equal to
\* the number fetched, and leaves the route store as it was.
C1_TooFewTripsRefused ==
    [][\A days_back \in DaysBackChoices, min_trips \in MinTripsChoices :
          (FetchedCount(days_back) < min_trips /\ StartDiscovery(days_back, min_trips))
          => /\ run'.pc = "done"
             /\ Refused(report', FetchedCount(days_back))
             /\ routes' = routes
             /\ session' = EmptySession]_vars

\* a call has returned such a report, with some trips fetched
C1_Witness ==
    /\ run.pc = "done"
    /\ run.trips_processed > 0
    /\ run.trips_processed < run.min_trips
    /\ Refused(report, run.trips_processed)

RowSeen(changes, i) == IF i \in DOMAIN changes.dirty THEN changes.dirty[i] ELSE routes[i]

\* x = (a + b) / 2
IsHalfSum(x, a, b) ==
    IF a.nan \/ b.nan THEN x.nan
    ELSE /\ ~x.nan
         /\ 2 * x.num * a.den * b.den = (a.num * b.den + b.num * a.den) * x.den

\* the two rows differ at most in trip_count and avg_duration_minutes
SameButCounts(old, new) ==
    /\ new.route_id = old.route_id
    /\ new.name = old.name
    /\ new.origin = old.origin
    /\ new.destination = old.destination
    /\ new.origin_lat = old.origin_lat
    /\ new.origin_lon = old.origin_lon
    /\ new.dest_lat = old.dest_lat
    /\ new.dest_lon = old.dest_lon
    /\ new.distance_km = old.distance_km
    /\ new.fare_egp = old.fare_egp
    /\ new.is_active = old.is_active

\* rows of the route store with the candidate's pair of names
RowsOfPair(route_info) ==
    { i \in 1..Len(routes) : /\ routes[i].origin = route_info.origin
                             /\ routes[i].destination = route_info.destination }

\* C3: when the candidate of a cluster has the (origin, destination) pair of a
\* route in the store, the pass of the loop adds the candidate's trip_count
\* to that route's, sets its avg_duration_minutes to half the sum of the two
\* values, changes no other field of it and no other route, and inserts
\* nothing; the commit writes the rows so changed.
C3_ExistingRouteUpdatedInPlace ==
    [][/\ (AtCluster /\ run'.ci = run.ci + 1)
          => LET route_info == CurrentCandidate
             IN  (route_info # NoRoute /\ RowsOfPair(route_info) # {})
                 => /\ session'.pending = session.pending
                    /\ run'.routes_discovered = run.routes_discovered
                    /\ \E i \in RowsOfPair(route_info) :
                          LET old == RowSeen(session, i)
                              new == RowSeen(session', i)
                          IN  /\ new.trip_count = old.trip_count + route_info.trip_count
                              /\ IsHalfSum(new.avg_duration_minutes, old.avg_duration_minutes,
                                           route_info.avg_duration_minutes)
                              /\ SameButCounts(old, new)
                              /\ \A j \in 1..Len(routes) \ {i} :
                                    RowSeen(session', j) = RowSeen(session, j)
       /\ (run.pc = "clusters" /\ run'.pc = "done")
          => \A i \in 1..Len(routes) : routes'[i] = RowSeen(session, i)]_vars

\* a route of the store has been updated from a cluster with a known duration
C3_Witness ==
    /\ run.pc = "done"
    /\ run.routes_updated > 0
    /\ \E i \in 1..Len(routes) : routes[i].trip_count > 10 /\ ~routes[i].avg_duration_minutes.nan

\* C4: the route store never holds two routes with the same (origin,
\* destination) pair.
C4_AtMostOneRoutePerPair ==
    \A i, j \in 1..Len(routes) :
        (routes[i].origin = routes[j].origin /\ routes[i].destination = routes[j].destination)
        => i = j

\* C5: no trip makes the extraction loop of a run raise.
C5_NoTripMakesTheRunRaise ==
    run.raised \notin {"JSONDecodeError", "TypeError", "AttributeError", "KeyError"}

\* the averaged start and end of the cluster the loop is at snap to one hub
SnapsToOneHub ==
    LET indices == run.clusters[run.ci].indices
        n == Len(indices)
        origin_hub == find_nearest_hub(
            MeanCoord([k \in 1..n |-> run.trajectories[indices[k]].start[1]]),
            MeanCoord([k \in 1..n |-> run.trajectories[indices[k]].start[2]]), DefaultMaxDistance)
        dest_hub == find_nearest_hub(
            MeanCoord([k \in 1..n |-> run.trajectories[indices[k]].end[1]]),
            MeanCoord([k \in 1..n |-> run.trajectories[indices[k]].end[2]]), DefaultMaxDistance)
    IN  origin_hub # NoHub /\ origin_hub = dest_hub

\* C6: a candidate has an origin different from its destination, and so has
\* every route the session inserts or updates and every route of the store; a
\* cluster whose averaged ends snap to one hub has no candidate.
C6_OriginDiffersFromDestination ==
    /\ \A i \in 1..Len(routes) : routes[i].origin # routes[i].destination
    /\ \A i \in 1..Len(session.pending) :
          session.pending[i].origin # session.pending[i].destination
    /\ \A i \in DOMAIN session.dirty : session.dirty[i].origin # session.dirty[i].destination
    /\ AtCluster => LET route_info == CurrentCandidate
                    IN  /\ route_info # NoRoute => route_info.origin # route_info.destination
                        /\ SnapsToOneHub => route_info = NoRoute

\* the loop is at a cluster whose ends snap to one hub, after an insert
C6_Witness ==
    /\ AtCluster
    /\ SnapsToOneHub
    /\ CurrentCandidate = NoRoute
    /\ session.pending # <<>>

\* C11: every report a call returns has the six fields success,
\* routes_discovered, routes_updated, trips_processed, clusters_found, message.
C11_ReportHasSixFields ==
    report # NoReport
    => {"success", "routes_discovered", "routes_updated", "trips_processed",
        "clusters_found", "message"} \subseteq DOMAIN report

\* C12: no two routes of the store share a route_id, and no commit fails on
\* the unique constraint of route_id.
C12_RouteIdsAreFresh ==
    /\ UniqueIds(routes)
    /\ run.raised # "IntegrityError"

\* C14: the route store changes only in the step that commits, which writes
\* the rows as the session holds them; a run that has raised before its
\* commit changes nothing, whatever it had prepared.
C14_StoreChangesOnlyAtCommit ==
    [][/\ routes' # routes
          => /\ run.pc = "clusters"
             /\ run.ci > Len(run.clusters)
             /\ run'.pc = "done"
             /\ routes' = [i \in 1..Len(routes) |-> RowSeen(session, i)] \o session.pending
       /\ run.pc = "raised" => routes' = routes]_vars

\* a run has raised on reading the store, with a route added for an earlier
\* cluster
C14_Witness ==
    /\ run.pc = "raised"
    /\ run.raised = "OperationalError"
    /\ session.pending # <<>>

\* the trips of the cluster the loop is at
ClusterTrips ==
    LET indices == run.clusters[run.ci].indices
    IN  [k \in 1..Len(indices) |-> run.valid_trips[indices[k]]]

\* the summed path length, in metres, of the cluster the loop is at
ClusterMetres ==
    LET indices == run.clusters[run.ci].indices
    IN  SumSeq([k \in 1..Len(indices) |-> run.trajectories[indices[k]].distance_km])

\* C15: a candidate's avg_duration_minutes is a finite number, and when no
\* trip of the cluster has a duration it is 3 minutes per kilometre of the
\* cluster's mean distance, rounded.
C15_DurationFallsBackToEstimate ==
    AtCluster
    => LET route_info == CurrentCandidate
       IN  route_info # NoRoute
           => /\ ~route_info.avg_duration_minutes.nan
              /\ (\A k \in 1..Len(ClusterTrips) : ClusterTrips[k].duration_minutes = 0)
                 => route_info.avg_duration_minutes =
                      Minutes(RoundHalfEven(3 * ClusterMetres, 1000 * Len(ClusterTrips)))

\* the averaged start and the averaged end of the cluster the loop is at
ClusterStart ==
    LET indices == run.clusters[run.ci].indices
    IN  <<MeanCoord([k \in 1..Len(indices) |-> run.trajectories[indices[k]].start[1]]),
          MeanCoord([k \in 1..Len(indices) |-> run.trajectories[indices[k]].start[2]])>>

ClusterEnd ==
    LET indices == run.clusters[run.ci].indices
    IN  <<MeanCoord([k \in 1..Len(indices) |-> run.trajectories[indices[k]].end[1]]),
          MeanCoord([k \in 1..Len(indices) |-> run.trajectories[indices[k]].end[2]])>>

\* the distances from a point to the hubs, in registry order
HubDistances(point) ==
    [h \in 1..Len(CAIRO_HUBS) |->
        haversine_distance(point[1], point[2], CAIRO_HUBS[h].lat, CAIRO_HUBS[h].lon)]

\* the registry's first hub at the least distance from the point
FirstNearest(point) ==
    LET ds == HubDistances(point)
    IN  CHOOSE h \in 1..Len(CAIRO_HUBS) :
            /\ \A g \in 1..Len(CAIRO_HUBS) : ds[h] <= ds[g]
            /\ \A g \in 1..(h - 1) : ds[g] > ds[h]

\* that hub's name if it is within the limit, else none
SnapWithin(point, limit) ==
    IF HubDistances(point)[FirstNearest(point)] <= limit
    THEN CAIRO_HUBS[FirstNearest(point)].name
    ELSE NoHub

\* C16 as stated: the snap has no maximum distance, so a cluster has no
\* candidate exactly when the hubs nearest to its two averaged ends are the
\* same hub.
C16_SnapHasNoMaximum ==
    AtCluster
    => (CurrentCandidate = NoRoute
        <=> CAIRO_HUBS[FirstNearest(ClusterStart)].name = CAIRO_HUBS[FirstNearest(ClusterEnd)].name)

\* C16, amended: the snap of synthesis uses the default maximum of 2000 m.  A
\* cluster has no candidate exactly when an averaged end has no hub within
\* 2000 m or both ends snap to the same hub; otherwise the candidate's origin
\* and destination are the nearest hubs of the two ends.
C16_SnapWithinDefaultMaximum ==
    AtCluster
    => LET route_info == CurrentCandidate
           origin_hub == SnapWithin(ClusterStart, 2000)
           dest_hub == SnapWithin(ClusterEnd, 2000)
       IN  IF origin_hub = NoHub \/ dest_hub = NoHub \/ origin_hub = dest_hub
           THEN route_info = NoRoute
           ELSE /\ route_info # NoRoute
                /\ route_info.origin = origin_hub
                /\ route_info.destination = dest_hub

\* the loop is at a cluster whose averaged start is more than 2000 m from
\* every hub and whose end is at a hub: it has no candidate
C16_Witness ==
    /\ AtCluster
    /\ \A h \in 1..Len(CAIRO_HUBS) : HubDistances(ClusterStart)[h] > 2000
    /\ SnapWithin(ClusterEnd, 2000) # NoHub
    /\ CurrentCandidate = NoRoute

-----------------------------------------------------------------------------
(* Claims about find_nearest_hub                                           *)

\* C17: find_nearest_hub returns a hub at the least distance when that
\* distance is within max_distance_m, of several such hubs the first of the
\* registry, and no hub when every hub is farther than max_distance_m.
C17_NearestHubWithinLimit ==
    hub_result # NotSnapped
    => LET point == <<hub_query.lat, hub_query.lon>>
           first == FirstNearest(point)
       IN  IF HubDistances(point)[first] <= hub_query.max_distance_m
           THEN hub_result = CAIRO_HUBS[first].name
           ELSE hub_result = NoHub

\* the call has answered for a point with two hubs at the least distance,
\* within the maximum
C17_Witness ==
    /\ hub_result \notin {NotSnapped, NoHub}
    /\ LET ds == HubDistances(<<hub_query.lat, hub_query.lon>>)
       IN  \E g, h \in 1..Len(CAIRO_HUBS) :
             /\ g < h
             /\ ds[g] = ds[h]
             /\ \A k \in 1..Len(CAIRO_HUBS) : ds[g] <= ds[k]
             /\ hub_result = CAIRO_HUBS[g].name

-----------------------------------------------------------------------------
(* More claims about discover_routes                                       *)

\* the row or candidate has the registry's coordinates of its two hubs
HasHubCoordinates(r) ==
    \E o, d \in 1..Len(CAIRO_HUBS) :
        /\ CAIRO_HUBS[o].name = r.origin
        /\ CAIRO_HUBS[d].name = r.destination
        /\ <<r.origin_lat, r.origin_lon>> = <<CAIRO_HUBS[o].lat, CAIRO_HUBS[o].lon>>
        /\ <<r.dest_lat, r.dest_lon>> = <<CAIRO_HUBS[d].lat, CAIRO_HUBS[d].lon>>

\* C18: in every pass of the loop a candidate has the registry's coordinates
\* of its origin and destination hubs and a trip_count equal to the number
\* of trajectories of the cluster, and so has the route the pass inserts.
C18_CandidateCarriesHubCoordinates ==
    [][(AtCluster /\ run'.ci = run.ci + 1)
          => LET route_info == CurrentCandidate
                 size == Len(run.clusters[run.ci].indices)
             IN  route_info # NoRoute
                 => /\ HasHubCoordinates(route_info)
                    /\ route_info.trip_count = size
                    /\ Len(session'.pending) > Len(session.pending)
                       => LET new_route == session'.pending[Len(session'.pending)]
                          IN  /\ HasHubCoordinates(new_route)
                              /\ new_route.trip_count = size]_vars

\* a route has been added for a cluster whose trips all start away from the
\* origin hub's coordinates
C18_Witness ==
    \E c \in 1..Len(run.clusters), k \in 1..Len(session.pending) :
        LET indices == run.clusters[c].indices
            new_route == session.pending[k]
        IN  /\ c < run.ci
            /\ new_route.trip_count = Len(indices)
            /\ new_route.origin = SnapWithin(run.trajectories[indices[1]].start, 2000)
            /\ \A i \in 1..Len(indices) :
                  run.trajectories[indices[i]].start # <<new_route.origin_lat, new_route.origin_lon>>

\* the scaled feature rows of the run's trajectories
RunFeatures == [i \in 1..Len(run.trajectories) |-> ScaledFeatures(run.trajectories[i])]

\* no dense sample is within eps of trajectory i, itself included
IsNoiseIndex(i) == \A j \in Neighbours(RunFeatures, i) : ~IsCore(RunFeatures, j)

\* the clusters whose list holds index i
ClustersOf(i) ==
    { c \in 1..Len(run.clusters) :
        \E k \in 1..Len(run.clusters[c].indices) : run.clusters[c].indices[k] = i }

\* C19: the clusters of a run have keys >= 0; a trajectory index is in the
\* list of at most one cluster, once, and in none when it is noise; the
\* candidate of a cluster counts the trips of its list and no other.
C19_NoiseIsInNoCluster ==
    /\ \A c \in 1..Len(run.clusters) :
          /\ run.clusters[c].label >= 0
          /\ \A k, l \in 1..Len(run.clusters[c].indices) :
                run.clusters[c].indices[k] = run.clusters[c].indices[l] => k = l
    /\ \A i \in 1..Len(run.trajectories) :
          /\ Cardinality(ClustersOf(i)) <= 1
          /\ (run.clusters # <<>> /\ IsNoiseIndex(i)) => ClustersOf(i) = {}
    /\ AtCluster
       => LET route_info == CurrentCandidate
          IN  route_info # NoRoute
              => route_info.trip_count = Cardinality({ i \in 1..Len(run.trajectories) :
                                                         run.ci \in ClustersOf(i) })

\* the loop is at a cluster with a candidate, in a run with a noise trajectory
C19_Witness ==
    /\ AtCluster
    /\ CurrentCandidate # NoRoute
    /\ \E i \in 1..Len(run.trajectories) : IsNoiseIndex(i)

\* the averaged start and end of cluster c of the run
MeanStartOf(c) ==
    LET indices == run.clusters[c].indices
    IN  <<MeanCoord([k \in 1..Len(indices) |-> run.trajectories[indices[k]].start[1]]),
          MeanCoord([k \in 1..Len(indices) |-> run.trajectories[indices[k]].start[2]])>>

MeanEndOf(c) ==
    LET indices == run.clusters[c].indices
    IN  <<MeanCoord([k \in 1..Len(indices) |-> run.trajectories[indices[k]].end[1]]),
          MeanCoord([k \in 1..Len(indices) |-> run.trajectories[indices[k]].end[2]])>>

\* synthesis rejects cluster c: an end snaps to no hub, or both to one
IsRejected(c) ==
    LET origin_hub == SnapWithin(MeanStartOf(c), 2000)
        dest_hub == SnapWithin(MeanEndOf(c), 2000)
    IN  origin_hub = NoHub \/ dest_hub = NoHub \/ origin_hub = dest_hub

\* C20: the pass of the loop at a rejected cluster changes neither the
\* session nor the store nor the two counters and goes on to the next
\* cluster; a run that commits reports success with routes_discovered +
\* routes_updated equal to the number of clusters not rejected, which is at
\* most clusters_found.
C20_RejectedClusterIsDropped ==
    [][/\ (AtCluster /\ IsRejected(run.ci) /\ run' # run)
          => /\ run' = [run EXCEPT !.ci = @ + 1]
             /\ session' = session
             /\ routes' = routes
       /\ (run.pc = "clusters" /\ run'.pc = "done")
          => /\ report'.success
             /\ report'.clusters_found = Len(run.clusters)
             /\ report'.routes_discovered + report'.routes_updated
                  = Cardinality({ c \in 1..Len(run.clusters) : ~IsRejected(c) })
             /\ report'.routes_discovered + report'.routes_updated <= report'.clusters_found]_vars

\* a run has reported success with a cluster rejected and another accepted
C20_Witness ==
    /\ run.pc = "done"
    /\ "clusters_found" \in DOMAIN report
    /\ report.success
    /\ \E c, d \in 1..Len(run.clusters) : c < d /\ IsRejected(c) /\ ~IsRejected(d)

\* the jobs whose call of discover_routes has not returned
InProgress == { j \in JobIds : jobs[j].run.pc = "clusters" }

\* C13: at no time are two calls of discover_routes in progress.
C13_AtMostOneRunInProgress == Cardinality(InProgress) <= 1

\* the rows discover_routes has inserted, committed or still in the session
DiscoveredRows ==
    { routes[i] : i \in { k \in 1..Len(routes) : routes[k].route_id.prefix = "route_discovered" } }
      \cup { session.pending[i] : i \in 1..Len(session.pending) }

\* C21 as stated: an inserted route is active and its fare is half its
\* distance (fare and distance both in tenths).
C21_FareIsHalfDistance ==
    \A row \in DiscoveredRows : row.is_active /\ 2 * row.fare_egp = row.distance_km

\* C21: an inserted route is active and its fare is half its distance rounded
\* to a whole number of pounds, a half going to the even one.
C21_FareIsHalfDistanceRounded ==
    \A row \in DiscoveredRows :
        /\ row.is_active
        /\ row.fare_egp % 10 = 0
        /\ Abs(2 * row.fare_egp - row.distance_km) <= 10
        /\ Abs(2 * row.fare_egp - row.distance_km) = 10 => (row.fare_egp \div 10) % 2 = 0

\* a committed run has inserted a route whose half distance is not whole
C21_Witness ==
    /\ run.pc = "done"
    /\ \E i \in 1..Len(routes) :
          /\ routes[i].route_id.prefix = "route_discovered"
          /\ routes[i].distance_km % 20 # 0

\* the entries of the alias table, by position, that qualify for a text: one
\* of their aliases is inside the normalized text or has it inside
Qualifying(text) ==
    LET normalized == normalize_text(CodePoints[text])
    IN  { i \in 1..Len(AREA_ALIASES) :
            \E j \in 1..Len(AREA_ALIASES[i].aliases) :
                \/ IsSubstring(AREA_ALIASES[i].aliases[j], normalized)
                \/ IsSubstring(normalized, AREA_ALIASES[i].aliases[j]) }

\* the texts of the last query
QueryEnds == {origin_text, dest_text}

\* C22: get_canonical_name gives the canonical name of the earliest declared
\* entry that qualifies, and none exactly when no entry qualifies.
C22_FirstQualifyingEntry ==
    match_result # NotAsked =>
        \A text \in QueryEnds :
            LET name == get_canonical_name(CodePoints[text])
            IN  /\ name = NoneName <=> Qualifying(text) = {}
                /\ name # NoneName =>
                     \E i \in Qualifying(text) :
                        /\ AREA_ALIASES[i].canonical = name
                        /\ \A k \in Qualifying(text) : i <= k

\* a query with a text for which several entries qualify and one for which
\* none does
C22_Witness ==
    /\ match_result # NotAsked
    /\ Cardinality(Qualifying(origin_text)) >= 2
    /\ normalize_text(CodePoints[origin_text]) # <<>>
    /\ Qualifying(dest_text) = {}

\* C23: the route match_route returns is an active route whose score no
\* active route exceeds, and the first such route in the order of the store.
C23_FirstBestActiveRoute ==
    match_result.matched =>
        \E i \in ActiveRows :
            /\ routes[i].route_id = match_result.route
            /\ \A k \in ActiveRows : ScoreOf(routes[k]) <= ScoreOf(routes[i])
            /\ \A k \in ActiveRows : k < i => ScoreOf(routes[k]) < ScoreOf(routes[i])

\* two active routes share the best score and the earlier one is returned
C23_Witness ==
    /\ match_result.matched
    /\ \E i, k \in ActiveRows :
          /\ i < k
          /\ routes[i].route_id = match_result.route
          /\ ScoreOf(routes[k]) = ScoreOf(routes[i])

\* the road distance, in hundredths of a km, from the point asked about to
\* the origin of row i
OriginDistance(i) ==
    RoundHalfEven(135 * haversine_distance(hub_query.lat, hub_query.lon,
                                           routes[i].origin_lat, routes[i].origin_lon), 1000)

\* the active rows whose origin name no earlier active row carries
FirstOfName == { i \in ActiveRows : \A k \in ActiveRows : k < i => routes[k].origin # routes[i].origin }

\* the answer is the nearest origin, within the limit, of the rows in among
NearestAmong(among) ==
    LET within == { i \in among : OriginDistance(i) <= hub_query.max_distance_km }
    IN  /\ hub_result = NoOrigin <=> within = {}
        /\ hub_result # NoOrigin =>
             \E i \in within :
                /\ hub_result.name = routes[i].origin
                /\ hub_result.lat = routes[i].origin_lat
                /\ hub_result.lon = routes[i].origin_lon
                /\ hub_result.distance_km = OriginDistance(i)
                /\ \A k \in within : OriginDistance(i) <= OriginDistance(k)

\* C24 as stated: the answer is the nearest origin of all active routes that
\* is within max_distance_km, and none when there is no such origin.
C24_NearestOfAllActiveOrigins == hub_result # NotLooked => NearestAmong(ActiveRows)

\* C24: the same over the active routes that are the first to carry their
\* origin name; a later route with the same origin name is not looked at.
C24_NearestOfFirstOriginPerName == hub_result # NotLooked => NearestAmong(FirstOfName)

\* an answer over a store in which a later active route has the name of an
\* earlier one and coordinates of its own
C24_Witness ==
    /\ hub_result # NotLooked
    /\ hub_result # NoOrigin
    /\ \E i, k \in ActiveRows :
          /\ i < k
          /\ routes[i].origin = routes[k].origin
          /\ routes[i].origin_lat # routes[k].origin_lat

\* C25: every cluster of a run holds at least MIN_SAMPLES indices, every row
\* a run inserts has a trip_count of at least MIN_SAMPLES, and every row it
\* updates has gained at least MIN_SAMPLES.
C25_ClusterHasMinSamples ==
    /\ \A c \in 1..Len(run.clusters) : Len(run.clusters[c].indices) >= MIN_SAMPLES
    /\ \A row \in DiscoveredRows : row.trip_count >= MIN_SAMPLES
    /\ \A i \in DOMAIN session.dirty :
          session.dirty[i].trip_count >= routes[i].trip_count + MIN_SAMPLES

\* a run has inserted the route of a cluster one of whose trajectories is
\* not dense: fewer than MIN_SAMPLES trajectories are within the radius of it
C25_Witness ==
    /\ run.pc = "clusters"
    /\ session.pending # <<>>
    /\ \E c \in 1..Len(run.clusters) :
          \E k \in 1..Len(run.clusters[c].indices) :
             Cardinality({ j \in 1..Len(RunFeatures) :
                             WithinEps(RunFeatures[run.clusters[c].indices[k]], RunFeatures[j]) })
                < MIN_SAMPLES

\* C26: when the hourly trigger calls discover_routes again, the store holds
\* at least 100 more trips with GPS data than when it last did.
C26_TriggerOncePerHundredTrips ==
    [][(/\ jobs["trip_trigger_check"].run.pc = "idle"
        /\ jobs'["trip_trigger_check"].run.pc # "idle"
        /\ jobs["trip_trigger_check"].trips_at_last_run >= 0
        /\ CallsDiscovery("trip_trigger_check", trips))
          => get_discovery_stats(trips).trips_with_gps
                >= jobs["trip_trigger_check"].trips_at_last_run + trip_threshold]_vars

\* every trip of the store is inside the window of every call
AllTripsRecent == \A i \in 1..Len(trips) : trips[i].created_days_ago <= 30

\* C27: a run over the trips an earlier run has seen leaves the trip_count
\* and the avg_duration_minutes of the routes that run discovered as they are.
C27_RerunLeavesCountsUnchanged ==
    [][(run.pc = "clusters" /\ run'.pc = "done" /\ AllTripsRecent)
          => \A i \in 1..Len(routes) :
                routes[i].route_id.prefix = "route_discovered"
                   => /\ routes'[i].trip_count = routes[i].trip_count
                      /\ routes'[i].avg_duration_minutes = routes[i].avg_duration_minutes]_vars

-----------------------------------------------------------------------------
(* The drivers' accounts                                                   *)

\* C28: after every completed request on a driver (register_driver,
\* submit_trip, request_withdrawal, check_and_award_badges) the stored tier
\* is calculate_tier of the stored total_points
C28_TierMatchesPoints ==
    driver # NoDriver => driver.tier = calculate_tier(driver.total_points)

\* C29: after any sequence of submit_trip and request_withdrawal the rewards
\* available (rewards_earned - rewards_withdrawn) are never negative, and
\* total_points is never negative.  Badge checks are left out of the
\* sequences: the account has no badge
C29_BalancesNeverNegative ==
    (driver # NoDriver /\ driver_badges = {}) =>
        /\ rewards_available_egp(driver) >= 0
        /\ driver.total_points >= 0

RECURSIVE SumPoints(_)
SumPoints(transactions) ==
    IF transactions = <<>> THEN 0
    ELSE transactions[1].points + SumPoints(Tail(transactions))

\* C30: after any sequence of submit_trip, request_withdrawal and
\* check_and_award_badges, total_points is the sum of the points of the
\* driver's PointsTransaction rows, and every row is written with the
\* total_points of that moment as its balance_after
C30_LedgerAccountsForPoints ==
    /\ [](driver # NoDriver => driver.total_points = SumPoints(points_transactions))
    /\ [][points_transactions' # points_transactions =>
              points_transactions'[Len(points_transactions')].balance_after
                  = driver'.total_points]_vars

====
